---------------------------- MODULE Spec2Model ----------------------------
(***************************************************************************)
(* A model of scripts/collect_results.py: the corpus walk (collect_runs),  *)
(* the resource window averager (compute_docker_averages), the aggregator  *)
(* (aggregate_runs), the writer (write_csv) and main.                      *)
(*                                                                         *)
(* Python values are records [t, n, d, s]:                                 *)
(*   t = "none"   None                                                     *)
(*   t = "str"    a str, s its characters (one-character strings)          *)
(*   t = "int"    an int, n its value                                      *)
(*   t = "float"  a finite float, the reduced fraction n / d               *)
(*   t = "nan"    a float not-a-number; n is the identity of the float     *)
(*                object (CPython compares dict keys and tuple items by    *)
(*                identity before ==, and nan == nan is False)             *)
(* Floats are exact fractions: rounding is not modelled.                   *)
(***************************************************************************)
EXTENDS Integers, Sequences, FiniteSets, TLC

\* ------------------------------------------------------------- bounds
\* roots on the command line
MaxRoots == 2
\* name parts appended to a stem to make a bundle name in SpecMeta
MaxParts == 2
\* directory entries listed in one root / one bundle
MaxEntries == 2
\* replication directories visited in one walk
MaxVisits == 2
\* Long Records handed to aggregate_runs in SpecAgg, records handed to
\* write_csv in SpecWrite
MaxRecs == 4
\* samples in one resource log in SpecDocker
MaxSamples == 3
\* digits of the fraction of a timestamp in SpecStamp
MaxDigits == 9

\* ------------------------------------------------------------- characters
\* The characters the model's strings use, in code point order.
AsciiTable ==
    << " ", "%", "+", "-", ".", "/",
       "0", "1", "2", "3", "4", "5", "6", "7", "8", "9", ":",
       "A", "B", "C", "D", "E", "F", "G", "H", "I", "J", "K", "L", "M",
       "N", "O", "P", "Q", "R", "S", "T", "U", "V", "W", "X", "Y", "Z", "_",
       "a", "b", "c", "d", "e", "f", "g", "h", "i", "j", "k", "l", "m",
       "n", "o", "p", "q", "r", "s", "t", "u", "v", "w", "x", "y", "z" >>

Range(s) == {s[i] : i \in 1..Len(s)}

Ord(c) == CHOOSE i \in 1..Len(AsciiTable) : AsciiTable[i] = c

DigitChars == {"0", "1", "2", "3", "4", "5", "6", "7", "8", "9"}

LetterChars == {AsciiTable[i] : i \in (18..43) \cup (45..70)}

\* str.lower() of one character
LowerChar(c) == IF c \in {AsciiTable[i] : i \in 18..43} THEN AsciiTable[Ord(c) + 27] ELSE c

Lower(s) == [i \in 1..Len(s) |-> LowerChar(s[i])]

DigitVal(c) == Ord(c) - Ord("0")

DigitChar(v) == AsciiTable[Ord("0") + v]

\* str.strip(): leading and trailing whitespace removed
RECURSIVE LStrip(_)
LStrip(s) ==
    IF s # << >> /\ Head(s) = " " THEN LStrip(Tail(s)) ELSE s

RECURSIVE RStrip(_)
RStrip(s) ==
    IF s # << >> /\ s[Len(s)] = " " THEN RStrip(SubSeq(s, 1, Len(s) - 1)) ELSE s

Strip(s) == RStrip(LStrip(s))

\* str < str : lexicographic by code point
RECURSIVE StrLt(_, _)
StrLt(a, b) ==
    IF b = << >> THEN FALSE
    ELSE IF a = << >> THEN TRUE
    ELSE IF Head(a) = Head(b) THEN StrLt(Tail(a), Tail(b))
    ELSE Ord(Head(a)) < Ord(Head(b))

AllDigits(s) == \A i \in 1..Len(s) : s[i] \in DigitChars

RECURSIVE DigitsToNat(_)
DigitsToNat(s) ==
    IF s = << >> THEN 0
    ELSE 10 * DigitsToNat(SubSeq(s, 1, Len(s) - 1)) + DigitVal(s[Len(s)])

RECURSIVE Pow10(_)
Pow10(k) == IF k = 0 THEN 1 ELSE 10 * Pow10(k - 1)

\* ------------------------------------------------------------- fractions
Abs(x) == IF x < 0 THEN -x ELSE x

RECURSIVE GCD(_, _)
GCD(a, b) == IF b = 0 THEN a ELSE GCD(b, a % b)

\* the fraction n / d (d > 0) in lowest terms
Frac(n, d) ==
    LET g == GCD(Abs(n), d)
    IN  [n |-> n \div g, d |-> d \div g]

FracAdd(a, b) ==
    LET g == GCD(a.d, b.d)
    IN  Frac(a.n * (b.d \div g) + b.n * (a.d \div g), (a.d \div g) * b.d)

FracLt(a, b) ==
    LET g == GCD(a.d, b.d)
    IN  a.n * (b.d \div g) < b.n * (a.d \div g)

FracDivInt(a, k) ==
    LET g == GCD(Abs(a.n), k)
    IN  Frac(a.n \div g, a.d * (k \div g))

\* int(x) of a float: truncation toward zero
Trunc(n, d) == IF n >= 0 THEN n \div d ELSE -((-n) \div d)

\* ------------------------------------------------------------- values
PyNone == [t |-> "none", n |-> 0, d |-> 1, s |-> << >>]

PyStr(chars) == [t |-> "str", n |-> 0, d |-> 1, s |-> chars]

PyInt(v) == [t |-> "int", n |-> v, d |-> 1, s |-> << >>]

PyFloat(num, den) ==
    LET q == Frac(num, den)
    IN  [t |-> "float", n |-> q.n, d |-> q.d, s |-> << >>]

\* float("nan"): the float object with identity id
PyNaN(id) == [t |-> "nan", n |-> id, d |-> 1, s |-> << >>]

Blank == PyStr(<< >>)

IsNaN(x) == x.t = "nan"

\* bool(x)
Truthy(x) ==
    CASE x.t = "none" -> FALSE
      [] x.t = "str" -> x.s # << >>
      [] x.t = "nan" -> TRUE
      [] OTHER -> x.n # 0

\* ------------------------------------------------------------- str() and float()
RECURSIVE FormatNat(_)
FormatNat(v) ==
    IF v < 10 THEN << DigitChar(v) >>
    ELSE Append(FormatNat(v \div 10), DigitChar(v % 10))

\* str(int)
FormatInt(v) == IF v < 0 THEN << "-" >> \o FormatNat(-v) ELSE FormatNat(v)

RECURSIVE ZeroPad(_, _)
ZeroPad(s, width) == IF Len(s) >= width THEN s ELSE ZeroPad(<< "0" >> \o s, width)

\* the least k >= 1 with d dividing 10^k (the floats the model formats are
\* decimal fractions of at most three places)
DecimalPlaces(d) == CHOOSE k \in 1..3 : Pow10(k) % d = 0 /\ \A j \in 1..(k - 1) : Pow10(j) % d # 0

\* str(float): shortest repr, always with a fractional part ("800.0", "0.5")
FormatFloat(x) ==
    IF x.t = "nan" THEN << "n", "a", "n" >>
    ELSE LET k == DecimalPlaces(x.d)
             scaled == (Abs(x.n) * Pow10(k)) \div x.d
             ip == FormatNat(scaled \div Pow10(k))
             fp == ZeroPad(FormatNat(scaled % Pow10(k)), k)
         IN  (IF x.n < 0 THEN << "-" >> ELSE << >>) \o ip \o << "." >> \o fp

\* str(x)
PyToStr(x) ==
    CASE x.t = "str" -> x.s
      [] x.t = "int" -> FormatInt(x.n)
      [] x.t = "none" -> << "n", "o", "n", "e" >>
      [] OTHER -> FormatFloat(x)

\* float(s) of a str: [ok, nan, n, d].  Accepted here: surrounding blanks, an
\* optional sign, digits with at most one ".", and the literal nan.  (Exponents,
\* inf and underscores are outside the model's alphabet of inputs.)
ParseFail == [ok |-> FALSE, nan |-> FALSE, n |-> 0, d |-> 1]

Parsed(neg, q) == [ok |-> TRUE, nan |-> FALSE, n |-> (IF neg THEN -1 ELSE 1) * q.n, d |-> q.d]

ParseFraction(ip, fp, neg) ==
    IF AllDigits(ip) /\ AllDigits(fp) /\ Len(ip) + Len(fp) >= 1
    THEN Parsed(neg, Frac(DigitsToNat(ip \o fp), Pow10(Len(fp))))
    ELSE ParseFail

ParseUnsigned(body, neg) ==
    LET dots == {i \in 1..Len(body) : body[i] = "."}
        p == CHOOSE i \in dots : TRUE
    IN  IF body = << "n", "a", "n" >> THEN [ok |-> TRUE, nan |-> TRUE, n |-> 0, d |-> 1]
        ELSE IF dots = {} THEN
            IF body # << >> /\ AllDigits(body)
            THEN Parsed(neg, Frac(DigitsToNat(body), 1)) ELSE ParseFail
        ELSE IF Cardinality(dots) = 1
            THEN ParseFraction(SubSeq(body, 1, p - 1), SubSeq(body, p + 1, Len(body)), neg)
        ELSE ParseFail

ParseFloat(s0) ==
    IF Strip(s0) # << >> /\ Strip(s0)[1] \in {"-", "+"}
    THEN ParseUnsigned(Tail(Strip(s0)), Strip(s0)[1] = "-")
    ELSE ParseUnsigned(Strip(s0), FALSE)

\* ------------------------------------------------------------- safe_float, safe_int
\* float(s) inside safe_float: the ValueError and a parsed nan both end as a
\* new not-a-number
FloatOfParsed(p, fresh) == IF ~p.ok \/ p.nan THEN PyNaN(fresh) ELSE PyFloat(p.n, p.d)

\* safe_float(x).  fresh is the identity of the float object a call creates
\* when it returns a new not-a-number; float(x) of a float returns x itself.
safe_float(x, fresh) ==
    CASE x.t = "none" -> PyNaN(fresh)
      [] x.t = "int" -> PyFloat(x.n, 1)
      [] x.t \in {"float", "nan"} -> x
      [] OTHER -> IF Strip(x.s) = << >> THEN PyNaN(fresh)
                  ELSE FloatOfParsed(ParseFloat(x.s), fresh)

\* int(float(s)) inside safe_int: int() of a not-a-number raises
IntOfParsed(p, default) == IF ~p.ok \/ p.nan THEN default ELSE Trunc(p.n, p.d)

IntOfStr(s, default) == IF s = << >> THEN default ELSE IntOfParsed(ParseFloat(s), default)

\* a coercion that takes an int and gives default for anything else
SafeIntOfInts(x, default) == IF x.t = "int" THEN x.n ELSE default

\* safe_int(x, default): an int is returned as is, anything else goes through
\* int(float(str(x).strip())); every failure gives default.
safe_int(x, default) ==
    CASE x.t = "none" -> default
      [] x.t = "int" -> x.n
      [] OTHER -> IntOfStr(Strip(PyToStr(x)), default)

\* ------------------------------------------------------------- unit parsers
\* A parsed number: [nan, n, d]
NumNaN == [nan |-> TRUE, n |-> 0, d |-> 1]

Num(q) == [nan |-> FALSE, n |-> q.n, d |-> q.d]

NumOfParsed(p) == IF p.ok /\ ~p.nan THEN Num(Frac(p.n, p.d)) ELSE NumNaN

\* s[:-1].strip() when s ends with "%"
DropPercent(s) ==
    IF s # << >> /\ s[Len(s)] = "%" THEN Strip(SubSeq(s, 1, Len(s) - 1)) ELSE s

\* (v or "") of a csv.DictReader cell, which is a str or None
OrEmpty(x) == IF Truthy(x) THEN x.s ELSE << >>

\* parse_cpu_percent(s): an optional trailing "%" is dropped, the rest is float()
parse_cpu_percent(x) == NumOfParsed(ParseFloat(DropPercent(Strip(OrEmpty(x)))))

\* the length of the longest prefix of s whose characters are all in set
RECURSIVE PrefixLen(_, _)
PrefixLen(s, set) ==
    IF s # << >> /\ Head(s) \in set THEN 1 + PrefixLen(Tail(s), set) ELSE 0

\* the length of the longest suffix of s whose characters are all in set
RECURSIVE SuffixLen(_, _)
SuffixLen(s, set) ==
    IF s # << >> /\ s[Len(s)] \in set
    THEN 1 + SuffixLen(SubSeq(s, 1, Len(s) - 1), set) ELSE 0

\* _MEM_RE's magnitude [0-9]*\.?[0-9]+
IsMagnitude(m) ==
    /\ m # << >>
    /\ m[Len(m)] \in DigitChars
    /\ Cardinality({i \in 1..Len(m) : m[i] = "."}) <= 1
    /\ \A i \in 1..Len(m) : m[i] \in DigitChars \cup {"."}

\* _MEM_RE's unit [A-Za-z]+
IsUnit(u) == u # << >> /\ \A i \in 1..Len(u) : u[i] \in LetterChars

\* a conversion that takes KB, MB and GB for KiB, MiB and GiB
ToMiBBinary(val, unit) ==
    CASE unit = << "B" >> -> Num(Frac(val.n, val.d * 1024 * 1024))
      [] unit \in {<< "K", "i", "B" >>, << "K", "B" >>} -> Num(Frac(val.n, val.d * 1024))
      [] unit \in {<< "M", "i", "B" >>, << "M", "B" >>} -> Num(Frac(val.n, val.d))
      [] unit \in {<< "G", "i", "B" >>, << "G", "B" >>} -> Num(Frac(val.n * 1024, val.d))
      [] unit = << "T", "i", "B" >> -> Num(Frac(val.n * 1024 * 1024, val.d))
      [] OTHER -> NumNaN

\* the conversion of mem_to_mib: val of unit, in MiB.  The factor of GB,
\* 1000^3 / 1024^2, is written in lowest terms: 1953125 / 2048.
ToMiB(val, unit) ==
    CASE unit = << "B" >> -> Num(Frac(val.n, val.d * 1024 * 1024))
      [] unit = << "K", "i", "B" >> -> Num(Frac(val.n, val.d * 1024))
      [] unit = << "M", "i", "B" >> -> Num(Frac(val.n, val.d))
      [] unit = << "G", "i", "B" >> -> Num(Frac(val.n * 1024, val.d))
      [] unit = << "T", "i", "B" >> -> Num(Frac(val.n * 1024 * 1024, val.d))
      [] unit = << "K", "B" >> -> Num(Frac(val.n * 1000, val.d * 1024 * 1024))
      [] unit = << "M", "B" >> -> Num(Frac(val.n * 1000 * 1000, val.d * 1024 * 1024))
      [] unit = << "G", "B" >> -> Num(Frac(val.n * 1953125, val.d * 2048))
      [] OTHER -> NumNaN

\* the match of _MEM_RE: the magnitude is the longest prefix of digits and
\* dots, the unit what follows the blanks after it
MemMatch(mag, unit) ==
    IF IsMagnitude(mag) /\ IsUnit(unit) THEN ToMiB(ParseFloat(mag), unit) ELSE NumNaN

MemSplit(s, k) == MemMatch(SubSeq(s, 1, k), LStrip(SubSeq(s, k + 1, Len(s))))

\* mem_to_mib(mem_used_part): <magnitude><blanks><letters>, converted to MiB
mem_to_mib(part) == MemSplit(Strip(part), PrefixLen(Strip(part), DigitChars \cup {"."}))

\* mem_usage.split("/", 1)[0]
LeftOfSlash(s) == SubSeq(s, 1, PrefixLen(s, Range(AsciiTable) \ {"/"}))

\* parse_mem_usage_to_mib(mem_usage): the part left of the first "/"
parse_mem_usage_to_mib(x) == mem_to_mib(Strip(LeftOfSlash(OrEmpty(x))))

\* ------------------------------------------------------------- timestamps
\* A timestamp string is a sequence of one-character strings in which the
\* date and time to the second ("2026-01-18T21:07:26") is one lexeme, named by
\* its clock time, and a numeric UTC offset ("+01:00") is one lexeme; the
\* fraction's "." and digits and a trailing "Z" are characters.
ClockSec ==
    ("00:00:00" :> 0) @@ ("00:00:10" :> 10) @@ ("00:00:20" :> 20)
    @@ ("00:00:30" :> 30) @@ ("01:00:10" :> 3610) @@ ("01:00:20" :> 3620)

OffsetSec == ("+00:00" :> 0) @@ ("+01:00" :> 3600) @@ ("-01:00" :> -3600)

DtFail == [ok |-> FALSE, aware |-> FALSE, sec |-> 0, us |-> 0]

\* digits padded with zeros on the left: ("000000" + digits)[-6:]
Pad6Left(digits) ==
    SubSeq(<< "0", "0", "0", "0", "0", "0" >> \o digits, Len(digits) + 1, Len(digits) + 6)

\* digits padded with zeros or truncated to six: (digits + "000000")[:6]
Pad6(digits) == SubSeq(digits \o << "0", "0", "0", "0", "0", "0" >>, 1, 6)

\* the datetime of a date-time lexeme, a fraction in microseconds and an offset
DateTime(clock, us, aware, offset) ==
    [ok |-> TRUE, aware |-> aware, sec |-> ClockSec[clock] - offset, us |-> us]

\* the part of fromisoformat's argument before the offset
IsoCore(core, frac, aware, offset) ==
    IF core = << >> \/ core[1] \notin DOMAIN ClockSec THEN DtFail
    ELSE IF Len(core) = 1 THEN DateTime(core[1], 0, aware, offset)
    ELSE IF core[2] = "." /\ Len(frac) = 6 /\ AllDigits(frac)
        THEN DateTime(core[1], DigitsToNat(frac), aware, offset)
    ELSE DtFail

\* datetime.fromisoformat(s) on the normalised string: the date-time lexeme, an
\* optional fraction of exactly six digits, an optional offset.  The result is
\* [ok, aware, sec, us]: for an aware datetime sec is the UTC second.
fromisoformat(s) ==
    IF s # << >> /\ s[Len(s)] \in DOMAIN OffsetSec
    THEN IsoCore(SubSeq(s, 1, Len(s) - 1), SubSeq(s, 3, Len(s) - 1), TRUE, OffsetSec[s[Len(s)]])
    ELSE IsoCore(s, SubSeq(s, 3, Len(s)), FALSE, 0)

\* s[:-1] + "+00:00" when s ends with "Z"
ReplaceZ(s) ==
    IF s # << >> /\ s[Len(s)] = "Z"
    THEN SubSeq(s, 1, Len(s) - 1) \o << "+00:00" >> ELSE s

\* the branch of re.match(r"^(.*?)(\.\d+)?([+-]\d{2}:\d{2})$", s): pre is s
\* without its offset tz, k the length of the run of digits that ends pre
WithOffset(s, pre, k, tz) ==
    IF k >= 1 /\ Len(pre) > k /\ pre[Len(pre) - k] = "."
    THEN fromisoformat(SubSeq(pre, 1, Len(pre) - k - 1) \o << "." >>
                       \o Pad6(SubSeq(pre, Len(pre) - k + 1, Len(pre))) \o << tz >>)
    ELSE fromisoformat(s)

\* the branch of s.split(".", 1): base and rest around the first ".", k the
\* length of the run of digits that starts rest
WithoutOffset(s, base, rest, k) ==
    IF k >= 1
    THEN fromisoformat(base \o << "." >> \o Pad6(SubSeq(rest, 1, k))
                       \o SubSeq(rest, k + 1, Len(rest)))
    ELSE fromisoformat(s)

SplitAtDot(s, p) ==
    WithoutOffset(s, SubSeq(s, 1, p - 1), SubSeq(s, p + 1, Len(s)),
                  PrefixLen(SubSeq(s, p + 1, Len(s)), DigitChars))

Normalised(s) ==
    IF s[Len(s)] \in DOMAIN OffsetSec
    THEN WithOffset(s, SubSeq(s, 1, Len(s) - 1),
                    SuffixLen(SubSeq(s, 1, Len(s) - 1), DigitChars), s[Len(s)])
    ELSE IF \E i \in 1..Len(s) : s[i] = "." THEN
        SplitAtDot(s, CHOOSE i \in 1..Len(s) : s[i] = "." /\ \A j \in 1..(i - 1) : s[j] # ".")
    ELSE fromisoformat(s)

\* parse_iso_dt(ts); ok = FALSE is the ValueError
parse_iso_dt(ts) == IF Strip(ts) = << >> THEN DtFail ELSE Normalised(ReplaceZ(Strip(ts)))

\* a < b of two datetimes that can be compared
DtLt(a, b) == a.sec < b.sec \/ (a.sec = b.sec /\ a.us < b.us)

\* comparing an offset-naive with an offset-aware datetime raises TypeError
DtCmpRaises(a, b) == a.aware # b.aware

\* ------------------------------------------------------------- resource window averager
POSTGIS == << "p", "o", "s", "t", "g", "i", "s" >>

GEOSERVER == << "g", "e", "o", "s", "e", "r", "v", "e", "r" >>

Tracked == {POSTGIS, GEOSERVER}

NoWindow(warned) == [on |-> FALSE, warned |-> warned, start |-> DtFail, end |-> DtFail]

\* the try block that parses the two endpoints: one failure drops both
WindowOf(a, b) ==
    IF ~a.ok \/ ~b.ok THEN NoWindow(TRUE)
    ELSE [on |-> TRUE, warned |-> FALSE, start |-> a, end |-> b]

\* the window of compute_docker_averages: [on, warned, start, end].  The
\* endpoints are parsed only when both are given.
Window(start_iso, end_iso) ==
    IF ~(Truthy(start_iso) /\ Truthy(end_iso)) THEN NoWindow(FALSE)
    ELSE WindowOf(parse_iso_dt(start_iso.s), parse_iso_dt(end_iso.s))

\* the container label of a sample: (row.get("container") or "").strip().lower()
ContainerOf(row) == Lower(Strip(OrEmpty(row.container)))

\* the window test of a sample whose timestamp is ts_dt.  A TypeError of a
\* comparison is caught by the row's except, which skips the sample.
InWindow(ts_dt, win) ==
    /\ ts_dt.ok
    /\ win.on =>
          /\ ~DtCmpRaises(ts_dt, win.start)
          /\ ~DtLt(ts_dt, win.start)
          /\ ~DtCmpRaises(ts_dt, win.end)
          /\ ~DtLt(win.end, ts_dt)

\* a loop body that does not look at the sample's own timestamp
SampleKeptAnyStamp(row, win) == ContainerOf(row) \in Tracked

\* the body of the loop over the rows: whether the sample reaches the two
\* append calls
SampleKept(row, win) ==
    /\ ContainerOf(row) \in Tracked
    /\ InWindow(parse_iso_dt(Strip(OrEmpty(row.ts))), win)

\* the samples of container that reach the append calls
Kept(rows, win, container) ==
    SelectSeq(rows, LAMBDA row : SampleKept(row, win) /\ ContainerOf(row) = container)

\* cpu_vals[container] after the loop
CpuVals(kept) == [i \in 1..Len(kept) |-> parse_cpu_percent(kept[i].cpu_perc)]

\* mem_vals[container] after the loop
MemVals(kept) == [i \in 1..Len(kept) |-> parse_mem_usage_to_mib(kept[i].mem_usage)]

RECURSIVE NumSum(_)
NumSum(xs) ==
    IF xs = << >> THEN [n |-> 0, d |-> 1]
    ELSE FracAdd([n |-> Head(xs).n, d |-> Head(xs).d], NumSum(Tail(xs)))

Mean(ys) == IF ys = << >> THEN NumNaN ELSE Num(FracDivInt(NumSum(ys), Len(ys)))

\* a mean that counts a not-a-number as a 0
AvgCountingNaN(xs) == Mean(xs)

\* avg(xs): the mean of the values that are not not-a-number
avg(xs) == Mean(SelectSeq(xs, LAMBDA x : ~x.nan))

AllNaN ==
    [postgis_cpu_avg_pct |-> NumNaN, geoserver_cpu_avg_pct |-> NumNaN,
     postgis_mem_avg_mib |-> NumNaN, geoserver_mem_avg_mib |-> NumNaN]

\* the averages over the samples kept of the two tracked processes
Averages(pg, gs) ==
    [postgis_cpu_avg_pct |-> avg(CpuVals(pg)), geoserver_cpu_avg_pct |-> avg(CpuVals(gs)),
     postgis_mem_avg_mib |-> avg(MemVals(pg)), geoserver_mem_avg_mib |-> avg(MemVals(gs))]

\* the averages over the rows read before the reader raised
AveragesSoFar(file, win) ==
    Averages(Kept(SubSeq(file.rows, 1, file.err - 1), win, POSTGIS),
             Kept(SubSeq(file.rows, 1, file.err - 1), win, GEOSERVER))

\* what compute_docker_averages returns when reading the log raises
ReadFailed(file, win) == AllNaN

WindowWarning(win) == IF win.warned THEN << "ts_window_failed" >> ELSE << >>

\* compute_docker_averages after the window is set
ReadLog(file, win) ==
    IF ~file.exists \/ file.err > 0
    THEN [out |-> ReadFailed(file, win),
          warns |-> WindowWarning(win) \o << "docker_read_failed" >>]
    ELSE [out |-> Averages(Kept(file.rows, win, POSTGIS), Kept(file.rows, win, GEOSERVER)),
          warns |-> WindowWarning(win)]

\* compute_docker_averages(docker_csv_path, start_iso, end_iso).  file is the
\* resource log: [exists, rows, err]; err = k > 0 means that reading raises
\* when the k-th row is fetched (k = 1: at open or before the first row).
\* The result is [out, warns]: the four averages and the warnings logged.
compute_docker_averages(file, start_iso, end_iso) == ReadLog(file, Window(start_iso, end_iso))

\* ------------------------------------------------------------- bundle metadata
S_baseline == << "b", "a", "s", "e", "l", "i", "n", "e" >>

S_cache == << "c", "a", "c", "h", "e" >>

\* whether pat occurs in s at position i
MatchAt(s, i, pat) ==
    i >= 1 /\ i + Len(pat) - 1 <= Len(s) /\ SubSeq(s, i, i + Len(pat) - 1) = pat

\* pat in name
Contains(s, pat) == \E i \in 1..Len(s) : MatchAt(s, i, pat)

NonHyphen == {AsciiTable[i] : i \in 1..Len(AsciiTable)} \ {"-"}

\* a search that does not ask for the hyphen after the token
TokenMatchesOpen(s, pat, set) ==
    {i \in 1..Len(s) :
        MatchAt(s, i, pat) /\ PrefixLen(SubSeq(s, i + Len(pat), Len(s)), set) >= 1}

\* re.search(<pat>(<set>+)-): the positions where pat, a run of one or more
\* characters of set and then a hyphen follow
TokenMatches(s, pat, set) ==
    {i \in 1..Len(s) :
        /\ MatchAt(s, i, pat)
        /\ LET k == PrefixLen(SubSeq(s, i + Len(pat), Len(s)), set)
           IN  k >= 1 /\ MatchAt(s, i + Len(pat) + k, << "-" >>)}

\* the least of a non-empty set of positions
Leftmost(ms) == CHOOSE j \in ms : \A m \in ms : j <= m

\* group(1) of the match that starts at i: the run of characters of set after pat
TokenAt(s, i, pat, set) ==
    SubSeq(s, i + Len(pat), i + Len(pat) + PrefixLen(SubSeq(s, i + Len(pat), Len(s)), set) - 1)

FirstToken(s, ms, pat, set, dflt) ==
    IF ms = {} THEN dflt ELSE TokenAt(s, Leftmost(ms), pat, set)

\* group(1) of the leftmost match, or dflt
TokenSearch(s, pat, set, dflt) == FirstToken(s, TokenMatches(s, pat, set), pat, set, dflt)

ZIPFS == << "-", "z", "i", "p", "f", "s" >>

\* the positions where "-zipfs" and a digit follow
ZipfMatches(s) ==
    {i \in 1..Len(s) :
        MatchAt(s, i, ZIPFS) /\ PrefixLen(SubSeq(s, i + Len(ZIPFS), Len(s)), DigitChars) >= 1}

\* [0-9]+(?:\.[0-9]+)? at the start of rest: k digits, then optionally a "."
\* and k2 >= 1 digits
ZipfDigits(rest, k, k2) ==
    IF MatchAt(rest, k + 1, << "." >>) /\ k2 >= 1
    THEN SubSeq(rest, 1, k + 1 + k2) ELSE SubSeq(rest, 1, k)

ZipfRun(rest, k) == ZipfDigits(rest, k, PrefixLen(SubSeq(rest, k + 2, Len(rest)), DigitChars))

FirstZipf(s, ms) ==
    IF ms = {} THEN << >> ELSE ZipfRun(SubSeq(s, Leftmost(ms) + Len(ZIPFS), Len(s)),
                 PrefixLen(SubSeq(s, Leftmost(ms) + Len(ZIPFS), Len(s)), DigitChars))

\* re.search(r"-zipfs([0-9]+(?:\.[0-9]+)?)", name): group(1) of the leftmost
\* match, or << >>
ZipfSearch(s) == FirstZipf(s, ZipfMatches(s))

\* a scenario decided by the substrings alone
ScenarioBySubstring(name) ==
    IF Contains(name, S_baseline) THEN S_baseline
    ELSE IF Contains(name, S_cache) THEN S_cache
    ELSE << "u", "n", "k", "n", "o", "w", "n" >>

\* the scenario of parse_bundle_meta
ScenarioOf(name) ==
    IF MatchAt(name, 1, S_baseline \o << "-" >>) THEN S_baseline
    ELSE IF MatchAt(name, 1, S_cache \o << "-" >>) THEN S_cache
    ELSE IF Contains(name, S_baseline) THEN S_baseline
    ELSE IF Contains(name, S_cache) THEN S_cache
    ELSE << "u", "n", "k", "n", "o", "w", "n" >>

\* int(m.group(1)) if m else 0
ResOf(r) == IF r = << >> THEN 0 ELSE DigitsToNat(r)

\* float(m.group(1)) if m else float("nan")
ZipfOf(z, zf, fresh) == IF z = << >> THEN PyNaN(fresh) ELSE PyFloat(zf.n, zf.d)

BundleMeta(name, fresh) ==
    [scenario |-> ScenarioOf(name),
     h3_res |-> ResOf(TokenSearch(name, << "-", "r" >>, DigitChars, << >>)),
     ttl |-> TokenSearch(name, << "-", "t", "t", "l" >>, NonHyphen, << >>),
     hot |-> TokenSearch(name, << "-", "h", "o", "t" >>, NonHyphen, << >>),
     invalidation |-> TokenSearch(name, << "-", "i", "n", "v" >>, NonHyphen, << >>),
     zipf_s_from_folder |-> ZipfOf(ZipfSearch(name), ParseFloat(ZipfSearch(name)), fresh)]

\* parse_bundle_meta(bundle_name); fresh is the identity of the not-a-number
\* the call creates when the name embeds no Zipf skew
parse_bundle_meta(bundle_name, fresh) == BundleMeta(Strip(bundle_name), fresh)

\* parse_rep_int(rep_dir_name): re.match(r"^rep(\d+)$"); -1 stands for None
parse_rep_int(rep_dir_name) ==
    LET digits == SubSeq(rep_dir_name, 4, Len(rep_dir_name))
    IN  IF MatchAt(rep_dir_name, 1, << "r", "e", "p" >>) /\ digits # << >> /\ AllDigits(digits)
        THEN DigitsToNat(digits)
        ELSE -1

\* ------------------------------------------------------------- sorted()
\* a == b of two tuple items, as PyObject_RichCompareBool(a, b, Py_EQ) decides
\* it: the same object, or equal values (a not-a-number equals only itself)
ItemEq(a, b) ==
    CASE a.t = "nan" \/ b.t = "nan" -> a.t = b.t /\ a.n = b.n
      [] a.t = "str" /\ b.t = "str" -> a.s = b.s
      [] a.t \in {"int", "float"} /\ b.t \in {"int", "float"} -> a.n * b.d = b.n * a.d
      [] OTHER -> a.t = b.t

\* a < b of two tuple items of one type (every comparison with a
\* not-a-number is False)
ItemLt(a, b) ==
    CASE a.t = "nan" \/ b.t = "nan" -> FALSE
      [] a.t = "str" /\ b.t = "str" -> StrLt(a.s, b.s)
      [] OTHER -> FracLt([n |-> a.n, d |-> a.d], [n |-> b.n, d |-> b.d])

\* k1 == k2 of two tuples of one length
TupleEq(k1, k2) == \A i \in 1..Len(k1) : ItemEq(k1[i], k2[i])

\* k1 < k2 of two tuples of one length: the first items that are not equal decide
TupleLt(k1, k2) ==
    LET diff == {i \in 1..Len(k1) : ~ItemEq(k1[i], k2[i])}
        i == CHOOSE j \in diff : \A m \in diff : j <= m
    IN  diff # {} /\ ItemLt(k1[i], k2[i])

\* the comparison list.sort makes of two items [key, ...]
SortLt(x, y) == TupleLt(x.key, y.key)

Reverse(s) == [i \in 1..Len(s) |-> s[Len(s) + 1 - i]]

\* count_run: the last index of the run that starts at index 1
RECURSIVE RunEnd(_, _, _)
RunEnd(items, i, descending) ==
    IF i = Len(items) THEN i
    ELSE IF descending = SortLt(items[i + 1], items[i]) THEN RunEnd(items, i + 1, descending)
    ELSE i

\* binarysort's search for the place of pivot in the sorted items[l+1 .. r]
RECURSIVE BSearch(_, _, _, _)
BSearch(items, pivot, l, r) ==
    IF l >= r THEN l
    ELSE LET p == l + ((r - l) \div 2)
         IN  IF SortLt(pivot, items[p + 1])
             THEN BSearch(items, pivot, l, p)
             ELSE BSearch(items, pivot, p + 1, r)

RECURSIVE BinarySort(_, _)
BinarySort(done, rest) ==
    IF rest = << >> THEN done
    ELSE LET l == BSearch(done, Head(rest), 0, Len(done))
         IN  BinarySort(SubSeq(done, 1, l) \o << Head(rest) >> \o SubSeq(done, l + 1, Len(done)),
                        Tail(rest))

\* the first run, made ascending
FirstRun(run, descending) == IF descending THEN Reverse(run) ELSE run

SortFrom(items, n, descending) ==
    BinarySort(FirstRun(SubSeq(items, 1, n), descending), SubSeq(items, n + 1, Len(items)))

SortRuns(items, descending) == SortFrom(items, RunEnd(items, 2, descending), descending)

\* sorted(items, key=...) as list.sort does it for fewer than 64 items: the
\* first run (reversed when strictly descending), then binary insertion
PySorted(items) ==
    IF Len(items) < 2 THEN items ELSE SortRuns(items, SortLt(items[2], items[1]))

\* ------------------------------------------------------------- aggregator
\* r.get(k): None when the record has no such key
Get(r, k) == IF k \in DOMAIN r THEN r[k] ELSE PyNone

\* str(v or "")
StrOrEmpty(v) == IF Truthy(v) THEN PyStr(PyToStr(v)) ELSE Blank

\* a key made of the values as they stand in the record
GroupKeyRaw(r, fresh) ==
    << r["scenario"], r["h3_res"], r["zipf_s"], r["target_rps"], r["ttl"], r["hot"],
       r["invalidation"] >>

\* the grouping key of a Long Record (the 7-tuple of aggregate_runs); fresh is
\* the identity of the not-a-number safe_float creates for this record
GroupKey(r, fresh) ==
    << Get(r, "scenario"),
       PyInt(safe_int(Get(r, "h3_res"), 0)),
       safe_float(Get(r, "zipf_s"), fresh),
       PyInt(safe_int(Get(r, "target_rps"), 0)),
       StrOrEmpty(Get(r, "ttl")),
       StrOrEmpty(Get(r, "hot")),
       StrOrEmpty(Get(r, "invalidation")) >>

\* the keys of the records, in order
Keys(rows, base) == [i \in 1..Len(rows) |-> GroupKey(rows[i], base + i)]

\* a grouping that keeps under a key only the record that came last
RECURSIVE GroupItemsLatest(_, _, _)
GroupItemsLatest(keys, i, acc) ==
    IF i > Len(keys) THEN acc
    ELSE LET hit == {g \in 1..Len(acc) : TupleEq(acc[g].key, keys[i])}
             g == CHOOSE x \in hit : TRUE
         IN  IF hit = {}
             THEN GroupItemsLatest(keys, i + 1, Append(acc, [key |-> keys[i], rs |-> << i >>]))
             ELSE GroupItemsLatest(keys, i + 1,
                                   [acc EXCEPT ![g] = [key |-> acc[g].key, rs |-> << i >>]])

\* groups.items() in insertion order: one item [key, rs] per key of the dict,
\* rs the indices of the records appended under it
RECURSIVE GroupItems(_, _, _)
GroupItems(keys, i, acc) ==
    IF i > Len(keys) THEN acc
    ELSE LET hit == {g \in 1..Len(acc) : TupleEq(acc[g].key, keys[i])}
             g == CHOOSE x \in hit : TRUE
         IN  IF hit = {}
             THEN GroupItems(keys, i + 1, Append(acc, [key |-> keys[i], rs |-> << i >>]))
             ELSE GroupItems(keys, i + 1,
                             [acc EXCEPT ![g] = [key |-> acc[g].key, rs |-> Append(acc[g].rs, i)]])

\* (lo + hi) / 2
Midpoint(lo, hi) ==
    PyFloat(FracDivInt(FracAdd([n |-> lo.n, d |-> lo.d], [n |-> hi.n, d |-> hi.d]), 2).n,
            FracDivInt(FracAdd([n |-> lo.n, d |-> lo.d], [n |-> hi.n, d |-> hi.d]), 2).d)

\* statistics.median_high: the upper of the two middle values
MedianHigh(data, n) == data[(n \div 2) + 1].key[1]

\* the middle of the sorted data
MiddleOf(data, n) ==
    IF n % 2 = 1 THEN data[(n \div 2) + 1].key[1]
    ELSE Midpoint(data[n \div 2].key[1], data[(n \div 2) + 1].key[1])

\* statistics.median of a non-empty list of floats
median(nums) == MiddleOf(PySorted([i \in 1..Len(nums) |-> [key |-> << nums[i] >>]]), Len(nums))

MedianOrNaN(nums, fresh) == IF nums = << >> THEN PyNaN(fresh) ELSE median(nums)

\* median_ignore_nan(values)
median_ignore_nan(values, fresh) ==
    MedianOrNaN(SelectSeq([i \in 1..Len(values) |-> safe_float(values[i], fresh)],
                          LAMBDA f : ~IsNaN(f)), fresh)

RECURSIVE SumInts(_)
SumInts(xs) == IF xs = << >> THEN 0 ELSE Head(xs) + SumInts(Tail(xs))

\* the Aggregated Record of one group
AggRow(rows, item, fresh) ==
    LET col(c) == [j \in 1..Len(item.rs) |-> Get(rows[item.rs[j]], c)]
    IN  [scenario |-> item.key[1],
         h3_res |-> item.key[2],
         zipf_s |-> item.key[3],
         target_rps |-> item.key[4],
         ttl |-> item.key[5],
         hot |-> item.key[6],
         invalidation |-> item.key[7],
         p50_ms_median |-> median_ignore_nan(col("p50_ms"), fresh),
         p95_ms_median |-> median_ignore_nan(col("p95_ms"), fresh + 1),
         p99_ms_median |-> median_ignore_nan(col("p99_ms"), fresh + 2),
         throughput_rps_median |-> median_ignore_nan(col("throughput_rps"), fresh + 3),
         errors_sum |-> PyInt(SumInts([j \in 1..Len(item.rs) |->
                                          safe_int(Get(rows[item.rs[j]], "errors"), 0)])),
         postgis_cpu_avg_pct_median |-> median_ignore_nan(col("postgis_cpu_avg_pct"), fresh + 4),
         geoserver_cpu_avg_pct_median |-> median_ignore_nan(col("geoserver_cpu_avg_pct"), fresh + 5),
         postgis_mem_avg_mib_median |-> median_ignore_nan(col("postgis_mem_avg_mib"), fresh + 6),
         geoserver_mem_avg_mib_median |-> median_ignore_nan(col("geoserver_mem_avg_mib"), fresh + 7),
         n_reps |-> PyInt(Len(item.rs))]

\* the groups in the order in which aggregate_runs emits them
SortedGroups(rows, base) == PySorted(GroupItems(Keys(rows, base), 1, << >>))

AggRows(rows, items, base) ==
    [g \in 1..Len(items) |-> AggRow(rows, items[g], base + Len(rows) + 8 * g)]

\* aggregate_runs(rows).  base: the float objects the call creates get the
\* identities above base.
aggregate_runs(rows, base) == AggRows(rows, SortedGroups(rows, base), base)

\* ------------------------------------------------------------- tables
RUNS_LONG_COLUMNS ==
    << "root_id", "bundle_name", "rep", "scenario", "h3_res", "ttl", "hot",
       "invalidation", "zipf_s_from_folder", "start", "end", "duration_sec",
       "total", "success", "errors", "throughput_rps", "target_rps",
       "achieved_to_target_ratio", "missed_tokens", "max_backlog", "token_buffer",
       "p50_ms", "p95_ms", "p99_ms", "concurrency", "zipf_s", "zipf_v", "bboxes",
       "layer", "target", "seed", "postgis_cpu_avg_pct", "geoserver_cpu_avg_pct",
       "postgis_mem_avg_mib", "geoserver_mem_avg_mib" >>

RUNS_AGG_COLUMNS ==
    << "scenario", "h3_res", "zipf_s", "target_rps", "ttl", "hot", "invalidation",
       "p50_ms_median", "p95_ms_median", "p99_ms_median", "throughput_rps_median",
       "errors_sum", "postgis_cpu_avg_pct_median", "geoserver_cpu_avg_pct_median",
       "postgis_mem_avg_mib_median", "geoserver_mem_avg_mib_median", "n_reps" >>

\* the summary fields collect_runs copies, in the order of its loop
SUMMARY_KEYS ==
    << "start", "end", "duration_sec", "total", "success", "errors",
       "throughput_rps", "target_rps", "achieved_to_target_ratio",
       "missed_tokens", "max_backlog", "token_buffer", "p50_ms", "p95_ms",
       "p99_ms", "concurrency", "zipf_s", "zipf_v", "bboxes", "layer", "target",
       "seed" >>

\* ------------------------------------------------------------- summary JSON
\* A JSON document: [j, obj, items, num].  j is its shape; obj the members of
\* an object (key -> value); items the elements of an array, or the pieces of a
\* string, each piece a word (so that a key name is one piece); num the value
\* of a number.
JObject(f) == [j |-> "object", obj |-> f, items |-> << >>, num |-> PyNone]

JArray(xs) == [j |-> "array", obj |-> << >>, items |-> xs, num |-> PyNone]

JString(xs) == [j |-> "string", obj |-> << >>, items |-> xs, num |-> PyNone]

JNumber(v) == [j |-> "number", obj |-> << >>, items |-> << >>, num |-> v]

JNull == [j |-> "null", obj |-> << >>, items |-> << >>, num |-> PyNone]

\* load_json(path) of a summary file [state, doc]: the document, or JNull
\* (None) with a warning when the file cannot be read or is not JSON
load_json(file) ==
    IF file.state = "ok"
    THEN [doc |-> file.doc, warns |-> << >>]
    ELSE [doc |-> JNull, warns |-> << "json_failed" >>]

\* bool(summary)
JsonTruthy(doc) ==
    CASE doc.j = "object" -> DOMAIN doc.obj # {}
      [] doc.j \in {"array", "string"} -> doc.items # << >>
      [] doc.j = "number" -> Truthy(doc.num)
      [] OTHER -> FALSE

\* k in summary, where it does not raise
KeyIn(doc, k) ==
    IF doc.j = "object" THEN k \in DOMAIN doc.obj ELSE k \in Range(doc.items)

\* whether the loop over the summary fields raises: "k in summary" is a
\* TypeError for a number, and summary.get is an AttributeError
\* for a list or a string in which some key is found
OverlayRaises(doc) ==
    \/ doc.j = "number"
    \/ doc.j \in {"array", "string"} /\ \E k \in Range(SUMMARY_KEYS) : KeyIn(doc, k)

\* ------------------------------------------------------------- run row assembler
FracDiv(a, b) ==
    IF b.n > 0 THEN Frac(a.n * b.d, a.d * b.n) ELSE Frac(-(a.n * b.d), a.d * (-b.n))

\* thr / tgt of the fallback of achieved_to_target_ratio
Ratio(thr, tgt, fresh) ==
    IF IsNaN(tgt) \/ tgt.n = 0 \/ IsNaN(thr) THEN PyNaN(fresh)
    ELSE LET q == FracDiv([n |-> thr.n, d |-> thr.d], [n |-> tgt.n, d |-> tgt.d])
         IN  PyFloat(q.n, q.d)

\* x in ("", None)
IsBlankOrNone(x) == x.t = "none" \/ (x.t = "str" /\ x.s = << >>)

\* str(v or "") or None
IsoArg(v) == IF Truthy(v) THEN PyStr(PyToStr(v)) ELSE PyNone

\* a float of the averager as a Python float
NumToPy(x, fresh) == IF x.nan THEN PyNaN(fresh) ELSE PyFloat(x.n, x.d)

\* the row after the loop over the summary fields: every column blank, then the
\* bundle metadata, then the summary fields present
BaseRow(root_id, bundle_name, rep_num, meta, doc) ==
    [c \in Range(RUNS_LONG_COLUMNS) |->
        CASE c = "root_id" -> PyStr(root_id)
          [] c = "bundle_name" -> PyStr(bundle_name)
          [] c = "rep" -> PyInt(rep_num)
          [] c = "scenario" -> PyStr(meta.scenario)
          [] c = "h3_res" -> PyInt(meta.h3_res)
          [] c = "ttl" -> PyStr(meta.ttl)
          [] c = "hot" -> PyStr(meta.hot)
          [] c = "invalidation" -> PyStr(meta.invalidation)
          [] c = "zipf_s_from_folder" -> meta.zipf_s_from_folder
          [] c \in Range(SUMMARY_KEYS) /\ doc.j = "object" /\ KeyIn(doc, c) -> doc.obj[c]
          [] OTHER -> Blank]

\* a fallback that tests the ratio with "not": a summary's 0 is recomputed too
WithRatioIfFalsy(r, fresh) ==
    IF ~Truthy(r["achieved_to_target_ratio"])
    THEN [r EXCEPT !["achieved_to_target_ratio"] =
              Ratio(safe_float(r["throughput_rps"], fresh),
                    safe_float(r["target_rps"], fresh + 1), fresh + 2)]
    ELSE r

\* the fallback of achieved_to_target_ratio
WithRatio(r, fresh) ==
    IF IsBlankOrNone(r["achieved_to_target_ratio"])
    THEN [r EXCEPT !["achieved_to_target_ratio"] =
              Ratio(safe_float(r["throughput_rps"], fresh),
                    safe_float(r["target_rps"], fresh + 1), fresh + 2)]
    ELSE r

\* a fallback that tests the skew with "not": a summary's 0 is replaced too
WithZipfIfFalsy(r, meta) ==
    IF ~Truthy(r["zipf_s"]) THEN [r EXCEPT !["zipf_s"] = meta.zipf_s_from_folder] ELSE r

\* the fallback of zipf_s
WithZipf(r, meta) ==
    IF IsBlankOrNone(r["zipf_s"]) THEN [r EXCEPT !["zipf_s"] = meta.zipf_s_from_folder] ELSE r

\* the row before the resource averages are overlaid
RowOfSummary(root_id, bundle_name, rep_num, meta, doc, fresh) ==
    WithZipf(WithRatio(BaseRow(root_id, bundle_name, rep_num, meta, doc), fresh), meta)

\* row.update(docker_avgs)
WithAverages(row, out, fresh) ==
    [row EXCEPT !["postgis_cpu_avg_pct"] = NumToPy(out.postgis_cpu_avg_pct, fresh),
                !["geoserver_cpu_avg_pct"] = NumToPy(out.geoserver_cpu_avg_pct, fresh + 1),
                !["postgis_mem_avg_mib"] = NumToPy(out.postgis_mem_avg_mib, fresh + 2),
                !["geoserver_mem_avg_mib"] = NumToPy(out.geoserver_mem_avg_mib, fresh + 3)]

\* what the csv writer gets for a value: not-a-number is written as "nan"
NanAsToken(v) == IF IsNaN(v) THEN PyStr(<< "n", "a", "n" >>) ELSE v

\* the cell write_csv hands to the csv writer for column c of record r
Cell(r, c) == NanAsToken(IF c \in DOMAIN r THEN r[c] ELSE Blank)

\* a lone surrogate code point, as json.load returns it for the escape \ud800
SURROGATE == "\\ud800"

\* whether the text of a cell can be encoded for the file opened with
\* encoding="utf-8"
Encodable(v) == v.t # "str" \/ SURROGATE \notin Range(v.s)

\* the cells of the line of record r
Line(r, columns) == [j \in 1..Len(columns) |-> Cell(r, columns[j])]

\* the number of lines w.writerow writes before one raises UnicodeEncodeError
\* (the file's write encodes the whole line, so no part of that line is written)
RECURSIVE RowsWritten(_, _)
RowsWritten(columns, rows) ==
    IF rows = << >> \/ \E j \in 1..Len(columns) : ~Encodable(Cell(Head(rows), columns[j]))
    THEN 0
    ELSE 1 + RowsWritten(columns, Tail(rows))

\* whether write_csv(path, columns, rows) ends in an exception
WriteRaises(columns, rows) == RowsWritten(columns, rows) < Len(rows)

\* a writer that leaves the header out of a table with no rows
WriteCsvBodyOnly(columns, rows) ==
    [header |-> IF rows = << >> THEN << >> ELSE columns,
     body |-> [i \in 1..RowsWritten(columns, rows) |-> Line(rows[i], columns)]]

\* the file write_csv(path, columns, rows) leaves, also when it raises (the
\* with block closes the file): the header, then one line per record written,
\* with one cell per column, in the order of columns
write_csv(columns, rows) ==
    [header |-> columns,
     body |-> [i \in 1..RowsWritten(columns, rows) |-> Line(rows[i], columns)]]

Skipped(warns) == [kind |-> "skip", warns |-> warns, row |-> << >>]

\* row.update(docker_avgs); rows.append(row)
Appended(base, avgs, fresh) ==
    [kind |-> "row", warns |-> avgs.warns, row |-> WithAverages(base, avgs.out, fresh + 3)]

\* the averages over the window the row's start and end give
Averaged(base, log, fresh) ==
    Appended(base, compute_docker_averages(log, IsoArg(base["start"]), IsoArg(base["end"])), fresh)

\* from "if not summary" on
Loaded(root_id, bundle_name, rep_num, meta, loaded, log, fresh) ==
    IF ~JsonTruthy(loaded.doc) THEN Skipped(loaded.warns \o << "empty_summary" >>)
    ELSE IF OverlayRaises(loaded.doc) THEN [kind |-> "raise", warns |-> << >>, row |-> << >>]
    ELSE Averaged(RowOfSummary(root_id, bundle_name, rep_num, meta, loaded.doc, fresh), log, fresh)

RepOutcome(root_id, bundle_name, rep_num, meta, sfile, log, fresh) ==
    IF sfile.state = "missing" THEN Skipped(<< "missing_summary" >>)
    ELSE IF ~log.exists THEN Skipped(<< "missing_docker" >>)
    ELSE Loaded(root_id, bundle_name, rep_num, meta, load_json(sfile), log, fresh)

\* ------------------------------------------------------------- inputs
Ts(clock, suffix) == PyStr(<< clock >> \o suffix)

Sample(ts, container, cpu, mem) ==
    [ts |-> ts, container |-> PyStr(container), cpu_perc |-> PyStr(cpu), mem_usage |-> PyStr(mem)]

\* a resource log with two postgis samples inside 00:00:10Z..00:00:20Z and one
\* after it
LogRows ==
    << Sample(Ts("00:00:10", << "Z" >>), POSTGIS, << "1", "0", "%" >>,
             << "1", "M", "i", "B", " ", "/", " ", "2", "G", "i", "B" >>),
       Sample(Ts("00:00:20", << "Z" >>), POSTGIS, << "2", "0", "%" >>,
             << "3", "M", "i", "B", " ", "/", " ", "2", "G", "i", "B" >>),
       Sample(Ts("00:00:30", << "Z" >>), POSTGIS, << "9", "0", "%" >>,
             << "3", "M", "i", "B", " ", "/", " ", "2", "G", "i", "B" >>) >>

\* the docker_stats.csv files of the walk: absent, failing at open, failing
\* after the first row, readable
DockerPool ==
    { [exists |-> FALSE, err |-> 0, rows |-> << >>],
      [exists |-> TRUE, err |-> 1, rows |-> LogRows],
      [exists |-> TRUE, err |-> 2, rows |-> LogRows],
      [exists |-> TRUE, err |-> 0, rows |-> LogRows] }

ObjA ==
    [k \in {"start", "end", "p50_ms", "throughput_rps", "target_rps", "errors", "zipf_s"} |->
        CASE k = "start" -> Ts("00:00:10", << "Z" >>)
          [] k = "end" -> Ts("00:00:20", << "Z" >>)
          [] k = "p50_ms" -> PyInt(10)
          [] k = "throughput_rps" -> PyFloat(400, 1)
          [] k = "target_rps" -> PyInt(800)
          [] k = "errors" -> PyInt(1)
          [] OTHER -> PyFloat(13, 10)]

ObjB == [k \in {"p50_ms"} |-> PyInt(20)]

\* the <scenario>_summary.json files of the walk
SummaryPool ==
    { [state |-> "missing", doc |-> JNull],
      [state |-> "unreadable", doc |-> JNull],
      [state |-> "invalid", doc |-> JNull] }
    \cup
    { [state |-> "ok", doc |-> d] :
        d \in { JNull, JObject(<< >>), JNumber(PyInt(0)),
                JObject(ObjA), JObject(ObjB),
                JArray(<< "x" >>), JArray(<< "seed" >>),
                JString(<< "a", "b" >>), JString(<< "x", "start", "x" >>),
                JNumber(PyInt(5)) } }

\* the pairs of files found in one replication directory: every summary beside
\* a readable log, and every log beside three of the summaries
RepInputs ==
    { << s, [exists |-> TRUE, err |-> 0, rows |-> LogRows] >> : s \in SummaryPool }
    \cup
    { << s, l >> : s \in { [state |-> "missing", doc |-> JNull],
                           [state |-> "ok", doc |-> JObject(ObjA)],
                           [state |-> "ok", doc |-> JNumber(PyInt(5))] },
                   l \in DockerPool }

RootPool ==
    { [name |-> << "a" >>, kind |-> "dir"],
      [name |-> << "b" >>, kind |-> "dir"],
      [name |-> << "m" >>, kind |-> "missing"],
      [name |-> << "f" >>, kind |-> "file"] }

\* the --roots lists: at least one root (nargs="+"), the names distinct
RootLists ==
    {rs \in UNION {[1..n -> RootPool] : n \in 1..MaxRoots} :
        \A i, j \in 1..Len(rs) : rs[i].name = rs[j].name => i = j}

BundlePool ==
    { [name |-> << "c", "a", "c", "h", "e", "-", "r", "9", "-", "t", "t", "l", "6", "0", "-", "z", "i", "p", "f", "s", "1", ".", "3" >>, isdir |-> TRUE],
      [name |-> << "b", "a", "s", "e", "l", "i", "n", "e", "-", "x" >>, isdir |-> TRUE],
      [name |-> << "n", "o", "t", "e", "s" >>, isdir |-> FALSE] }

RepPool ==
    { [name |-> << "r", "e", "p", "2" >>, isdir |-> TRUE],
      [name |-> << "r", "e", "p", "1", "0" >>, isdir |-> TRUE],
      [name |-> << "a", "u", "x" >>, isdir |-> TRUE],
      [name |-> << "r", "e", "p", "3" >>, isdir |-> FALSE] }

Listings(pool) == {l \in SUBSET pool : Cardinality(l) <= MaxEntries}

\* sorted(paths) of the entries of one directory: by name
RECURSIVE SetToSeq(_)
SetToSeq(S) ==
    IF S = {} THEN << >>
    ELSE LET x == CHOOSE y \in S : TRUE IN << x >> \o SetToSeq(S \ {x})

ByName(entries) == [i \in 1..Len(entries) |-> [key |-> << PyStr(entries[i].name) >>, entry |-> entries[i]]]

EntriesOf(items) == [i \in 1..Len(items) |-> items[i].entry]

SortedEntries(listing) == EntriesOf(PySorted(ByName(SetToSeq(listing))))

\* ------------------------------------------------------------- inputs of the averager
\* the samples a resource log is made of: the three of LogRows, a timestamp
\* without an offset (and a CPU that is no number), one with an offset, with a
\* fraction (a label in another case, and a memory of an unknown unit), an
\* empty and an unparsable one, and a process that is not tracked
SamplePool ==
    { LogRows[1], LogRows[2], LogRows[3],
      Sample(Ts("00:00:10", << >>), POSTGIS, << "x" >>,
             << "3", "M", "i", "B", " ", "/", " ", "2", "G", "i", "B" >>),
      Sample(Ts("01:00:20", << "+01:00" >>), GEOSERVER, << "2", "0", "%" >>,
             << "5", "1", "2", "K", "i", "B", " ", "/", " ", "1", "G", "i", "B" >>),
      Sample(Ts("00:00:20", << ".", "5", "Z" >>), << " ", "P", "o", "s", "t", "G", "I", "S" >>,
             << "9", "0", "%" >>, << "1", "X", "B", " ", "/", " ", "2", "G", "i", "B" >>),
      Sample(Blank, POSTGIS, << "9", "0", "%" >>,
             << "3", "M", "i", "B", " ", "/", " ", "2", "G", "i", "B" >>),
      Sample(PyStr(<< "x" >>), GEOSERVER, << "1", "0", "%" >>,
             << "1", "M", "i", "B", " ", "/", " ", "2", "G", "i", "B" >>),
      Sample(Ts("00:00:10", << "Z" >>), << "n", "g", "i", "n", "x" >>, << "9", "0", "%" >>,
             << "1", "M", "i", "B", " ", "/", " ", "2", "G", "i", "B" >>) }

\* start_iso: absent, with Z, without an offset, with an offset, unparsable
StartPool ==
    { PyNone, Ts("00:00:10", << "Z" >>), Ts("00:00:10", << >>),
      Ts("01:00:10", << "+01:00" >>), PyStr(<< "x" >>) }

\* end_iso: absent, with Z, without an offset, unparsable
EndPool == { PyNone, Ts("00:00:20", << "Z" >>), Ts("00:00:20", << >>), PyStr(<< "x" >>) }

\* ------------------------------------------------------------- inputs of the aggregator
\* a Long Record: every column of RUNS_LONG_COLUMNS, blank where over gives no value
LongRecord(over) ==
    [c \in Range(RUNS_LONG_COLUMNS) |-> IF c \in DOMAIN over THEN over[c] ELSE Blank]

\* Long Records of one bundle name: the numbers of the key written as int,
\* float and str, a target between two integers, a skew that is one float
\* object, another float object or not a number at all, and the metric
\* p50_ms as 10, 20, not-a-number, 30, text and blank, and errors as 1,
\* " 2.7 ", not-a-number, 3, text, blank, 2.5 and null
RecordPool ==
    { LongRecord([scenario |-> PyStr(S_cache), h3_res |-> PyInt(9), zipf_s |-> PyFloat(13, 10),
                  target_rps |-> PyInt(800), p50_ms |-> PyInt(10),
                  throughput_rps |-> PyFloat(400, 1), errors |-> PyInt(1)]),
      LongRecord([scenario |-> PyStr(S_cache), h3_res |-> PyStr(<< "9" >>),
                  zipf_s |-> PyStr(<< "1", ".", "3" >>), target_rps |-> PyStr(<< "8", "0", "0" >>),
                  p50_ms |-> PyFloat(20, 1), throughput_rps |-> PyStr(<< "8", "0", "0" >>),
                  errors |-> PyStr(<< " ", "2", ".", "7", " " >>)]),
      LongRecord([scenario |-> PyStr(S_cache), h3_res |-> PyStr(<< " ", "9", ".", "0", " " >>),
                  zipf_s |-> PyFloat(13, 10),
                  target_rps |-> PyStr(<< " " >> \o << "8", "0", "0" >> \o << ".", "0", " " >>),
                  p50_ms |-> PyNaN(3), throughput_rps |-> PyNone, errors |-> PyNaN(3)]),
      LongRecord([scenario |-> PyStr(S_cache), h3_res |-> PyFloat(9, 1), zipf_s |-> PyFloat(13, 10),
                  target_rps |-> PyFloat(1601, 2), p50_ms |-> PyInt(30),
                  throughput_rps |-> PyFloat(1601, 2), errors |-> PyInt(3)]),
      LongRecord([scenario |-> PyStr(S_cache), h3_res |-> PyInt(9), zipf_s |-> PyNaN(1),
                  target_rps |-> PyInt(800), p50_ms |-> PyStr(<< "x" >>), errors |-> PyStr(<< "x" >>)]),
      LongRecord([scenario |-> PyStr(S_cache), h3_res |-> PyInt(9), zipf_s |-> PyNaN(2),
                  target_rps |-> PyInt(800), p50_ms |-> PyInt(10)]),
      LongRecord([scenario |-> PyStr(S_cache), h3_res |-> PyInt(9), zipf_s |-> PyFloat(1, 2),
                  target_rps |-> PyStr(<< "x" >>), p50_ms |-> PyInt(20), errors |-> PyFloat(5, 2)]),
      LongRecord([scenario |-> PyStr(S_baseline), h3_res |-> PyInt(9), zipf_s |-> PyStr(<< "x" >>),
                  target_rps |-> PyInt(0), p50_ms |-> PyInt(30), errors |-> PyNone]) }

\* ------------------------------------------------------------- inputs of the writer
\* records of any keys: a Long Record, one whose layer cannot be encoded, one
\* with a not-a-number, one with a key that is no column and few of the
\* columns, and one with no key at all
LoosePool ==
    { LongRecord([scenario |-> PyStr(S_cache), h3_res |-> PyInt(9), zipf_s |-> PyFloat(13, 10),
                  target_rps |-> PyInt(800), p50_ms |-> PyInt(10), layer |-> PyStr(<< "x" >>)]),
      LongRecord([scenario |-> PyStr(S_cache), h3_res |-> PyInt(9), zipf_s |-> PyFloat(13, 10),
                  target_rps |-> PyInt(800), p50_ms |-> PyInt(20),
                  layer |-> PyStr(<< SURROGATE >>)]),
      LongRecord([scenario |-> PyStr(S_baseline), zipf_s |-> PyNaN(1), p50_ms |-> PyNaN(2)]),
      [k \in {"rep", "note", "p50_ms"} |-> IF k = "note" THEN PyStr(<< "x" >>) ELSE PyInt(1)],
      [k \in {} |-> Blank] }

\* ------------------------------------------------------------- inputs of the metadata extractor
\* the example of the naming grammar, without its last two tokens
StemPool ==
    { << >>,
      << "c", "a", "c", "h", "e", "-", "r", "9", "-", "t", "t", "l", "6", "0",
         "-", "h", "o", "t", "w", "a", "r", "m" >> }

\* what a bundle name is made of: the two scenario words, the prefix "cache-",
\* a hyphen, a blank, other text, and the tokens of the grammar
NameParts ==
    { S_cache, S_cache \o << "-" >>, S_baseline, << "-" >>, << " " >>, << "x" >>, << "." >>, << "3" >>,
      << "-", "r", "9" >>, << "-", "r", "1", "2" >>,
      << "-", "t", "t", "l", "6", "0" >>, << "-", "t", "t", "l", "7" >>,
      << "-", "h", "o", "t", "w", "a", "r", "m" >>,
      << "-", "i", "n", "v", "l", "a", "z", "y" >>,
      << "-", "z", "i", "p", "f", "s", "1", ".", "3" >>, << "-", "z", "i", "p", "f", "s", "2" >> }

RECURSIVE Joined(_)
Joined(parts) == IF parts = << >> THEN << >> ELSE Head(parts) \o Joined(Tail(parts))

\* the bundle names: a stem and up to MaxParts parts, the empty name left out
NamePool ==
    { stem \o Joined(parts) :
        stem \in StemPool, parts \in UNION {[1..n -> NameParts] : n \in 0..MaxParts} }
    \ { << >> }

\* ------------------------------------------------------------- inputs of the row assembler
\* a field the summary object does not have
Absent == [t |-> "absent", n |-> 0, d |-> 1, s |-> << >>]

\* the object with the members of choice that are not Absent
ObjectOf(choice) == [k \in {f \in DOMAIN choice : choice[f] # Absent} |-> choice[k]]

\* summary objects: the ratio absent, null, "", 0 or 0.75; the throughput
\* absent, null, 400.0 or text; the target absent, null, 800, 0, "800" or text;
\* the skew absent, null, "", 0 or 1.1
SummaryObjects ==
    { ObjectOf([achieved_to_target_ratio |-> a, throughput_rps |-> thr, target_rps |-> tgt,
                zipf_s |-> z]) :
        a \in {Absent, PyNone, Blank, PyInt(0), PyFloat(3, 4)},
        thr \in {Absent, PyNone, PyFloat(400, 1), PyStr(<< "x" >>)},
        tgt \in {Absent, PyNone, PyInt(800), PyInt(0), PyStr(<< "8", "0", "0" >>), PyStr(<< "x" >>)},
        z \in {Absent, PyNone, Blank, PyInt(0), PyFloat(11, 10)} }

\* ------------------------------------------------------------- state
VARIABLES
    pc,            \* where main is
    roots,         \* the --roots list: [name, kind]
    ri,            \* the index of the root the walk is at
    bundleQ,       \* the sorted entries of the root not yet visited
    bundle,        \* the bundle the walk is in: [name, meta]
    repQ,          \* the sorted replication directories not yet visited
    rows,          \* the Long Records collected (runs_long)
    warnings,      \* what warn() has printed: [kind, root]
    runs_agg,      \* the Aggregated Records
    files,         \* runs_long.csv and runs_agg.csv in the output directory
    exit_code,     \* -1 while main runs, 0 returned, 1 after a traceback
    nan_ids,       \* the float objects created so far (their identities)
    visits,        \* history: the replication directories examined
    last,          \* history: the inputs and the outcome of the latest one
    valid_by_root, \* history: per root, the replications with an object summary and a log
    n_bad,         \* history: the replications whose summary is not a non-empty object
    groups,        \* groups.items() of aggregate_runs, sorted: [key, rs]
    dfile,         \* SpecDocker: the resource log
    dstart,        \* SpecDocker: start_iso
    dend,          \* SpecDocker: end_iso
    davg,          \* SpecDocker: what compute_docker_averages returned
    summary,       \* SpecRow: the members of the summary object of the bundle's replications
    ts,            \* SpecStamp: the timestamp text handed to parse_iso_dt
    ts_dt,         \* SpecStamp: what parse_iso_dt returned
    mem_usage,     \* SpecMem: the text handed to parse_mem_usage_to_mib
    mem_mib        \* SpecMem: what parse_mem_usage_to_mib returned

walkVars == << roots, ri, bundleQ, bundle, repQ, warnings, files, exit_code, visits, last,
               valid_by_root, n_bad >>

dockerVars == << dfile, dstart, dend, davg >>

callVars == << summary, ts, ts_dt, mem_usage, mem_mib >>

vars == << pc, rows, runs_agg, groups, nan_ids, walkVars, dockerVars, callVars >>

NoFile == [exists |-> FALSE, header |-> << >>, body |-> << >>]

NoVisit ==
    [seen |-> FALSE, matches |-> FALSE, sum_state |-> "missing", shape |-> "null",
     truthy |-> FALSE, object |-> FALSE, docker_exists |-> FALSE, docker_err |-> 0,
     kind |-> "skip", warned |-> 0, added |-> 0]

NoBundle == [name |-> << >>, meta |-> parse_bundle_meta(<< >>, 0)]

DockerIdle ==
    /\ dfile = [exists |-> FALSE, err |-> 0, rows |-> << >>]
    /\ dstart = PyNone
    /\ dend = PyNone
    /\ davg = [out |-> AllNaN, warns |-> << >>]

CallIdle ==
    /\ summary = << >>
    /\ ts = << >>
    /\ ts_dt = DtFail
    /\ mem_usage = << >>
    /\ mem_mib = NumNaN

Init ==
    /\ pc = "roots"
    /\ roots \in RootLists
    /\ ri = 1
    /\ bundleQ = << >>
    /\ bundle = NoBundle
    /\ repQ = << >>
    /\ rows = << >>
    /\ warnings = << >>
    /\ runs_agg = << >>
    /\ groups = << >>
    /\ files = [f \in {"runs_long.csv", "runs_agg.csv"} |-> NoFile]
    /\ exit_code = -1
    /\ nan_ids = 0
    /\ visits = 0
    /\ last = NoVisit
    /\ valid_by_root = [i \in 1..Len(roots) |-> 0]
    /\ n_bad = 0
    /\ DockerIdle
    /\ CallIdle

\* ------------------------------------------------------------- collect_runs
Warn(kind) == [kind |-> kind, root |-> ri]

\* a root that does not exist or is not a directory: warn and continue
SkipRoot ==
    /\ pc = "roots"
    /\ ri <= Len(roots)
    /\ roots[ri].kind # "dir"
    /\ warnings' = Append(warnings, Warn("root_not_found"))
    /\ ri' = ri + 1
    /\ UNCHANGED << pc, roots, bundleQ, bundle, repQ, rows, runs_agg, groups, files, exit_code,
                    nan_ids, visits, last, valid_by_root, n_bad, dockerVars, callVars >>

\* sorted(root.iterdir())
EnterRoot ==
    /\ pc = "roots"
    /\ ri <= Len(roots)
    /\ roots[ri].kind = "dir"
    /\ \E listing \in Listings(BundlePool) : bundleQ' = SortedEntries(listing)
    /\ pc' = "bundles"
    /\ UNCHANGED << roots, ri, bundle, repQ, rows, warnings, runs_agg, groups, files, exit_code,
                    nan_ids, visits, last, valid_by_root, n_bad, dockerVars, callVars >>

\* an entry of the root that is not a directory
SkipEntry ==
    /\ pc = "bundles"
    /\ bundleQ # << >>
    /\ ~Head(bundleQ).isdir
    /\ bundleQ' = Tail(bundleQ)
    /\ UNCHANGED << pc, roots, ri, bundle, repQ, rows, warnings, runs_agg, groups, files, exit_code,
                    nan_ids, visits, last, valid_by_root, n_bad, dockerVars, callVars >>

\* a bundle: its metadata, and its directories sorted
EnterBundle ==
    /\ pc = "bundles"
    /\ bundleQ # << >>
    /\ Head(bundleQ).isdir
    /\ bundle' = [name |-> Head(bundleQ).name,
                  meta |-> parse_bundle_meta(Head(bundleQ).name, nan_ids + 1)]
    /\ nan_ids' = nan_ids + 1
    /\ \E listing \in Listings(RepPool) :
          /\ visits + Cardinality({e \in listing : e.isdir}) <= MaxVisits
          /\ repQ' = SortedEntries({e \in listing : e.isdir})
    /\ bundleQ' = Tail(bundleQ)
    /\ pc' = "reps"
    /\ UNCHANGED << roots, ri, rows, warnings, runs_agg, groups, files, exit_code,
                    visits, last, valid_by_root, n_bad, dockerVars, callVars >>

LeaveRoot ==
    /\ pc = "bundles"
    /\ bundleQ = << >>
    /\ ri' = ri + 1
    /\ pc' = "roots"
    /\ UNCHANGED << roots, bundleQ, bundle, repQ, rows, warnings, runs_agg, groups, files, exit_code,
                    nan_ids, visits, last, valid_by_root, n_bad, dockerVars, callVars >>

\* a directory of the bundle whose name is not rep<N>: continue
SkipDir ==
    /\ pc = "reps"
    /\ repQ # << >>
    /\ parse_rep_int(Head(repQ).name) = -1
    /\ repQ' = Tail(repQ)
    /\ visits' = visits + 1
    /\ last' = [NoVisit EXCEPT !.seen = TRUE]
    /\ UNCHANGED << pc, roots, ri, bundleQ, bundle, rows, warnings, runs_agg, groups, files,
                    exit_code, nan_ids, valid_by_root, n_bad, dockerVars, callVars >>

\* whether a summary file holds a non-empty JSON object
IsObject(sfile) == sfile.state = "ok" /\ sfile.doc.j = "object" /\ JsonTruthy(sfile.doc)

\* the effect of one iteration with outcome o on the files sfile and log
Visit(sfile, log, o) ==
    /\ rows' = IF o.kind = "row" THEN Append(rows, o.row) ELSE rows
    /\ warnings' = warnings \o [i \in 1..Len(o.warns) |-> Warn(o.warns[i])]
    /\ pc' = IF o.kind = "raise" THEN "raised" ELSE pc
    /\ exit_code' = IF o.kind = "raise" THEN 1 ELSE exit_code
    /\ last' = [seen |-> TRUE, matches |-> TRUE, sum_state |-> sfile.state,
                shape |-> sfile.doc.j, truthy |-> JsonTruthy(sfile.doc),
                object |-> IsObject(sfile),
                docker_exists |-> log.exists, docker_err |-> log.err,
                kind |-> o.kind, warned |-> Len(o.warns), added |-> Len(rows') - Len(rows)]
    /\ valid_by_root' = [valid_by_root EXCEPT
                            ![ri] = @ + (IF IsObject(sfile) /\ log.exists THEN 1 ELSE 0)]
    /\ n_bad' = n_bad + (IF IsObject(sfile) THEN 0 ELSE 1)

\* a directory rep<N> with the two files found in it
VisitRep ==
    /\ pc = "reps"
    /\ repQ # << >>
    /\ parse_rep_int(Head(repQ).name) # -1
    /\ \E input \in RepInputs :
          Visit(input[1], input[2],
                RepOutcome(roots[ri].name, bundle.name, parse_rep_int(Head(repQ).name),
                           bundle.meta, input[1], input[2], nan_ids + 1))
    /\ repQ' = Tail(repQ)
    /\ nan_ids' = nan_ids + 7
    /\ visits' = visits + 1
    /\ UNCHANGED << roots, ri, bundleQ, bundle, runs_agg, groups, files, dockerVars, callVars >>

LeaveBundle ==
    /\ pc = "reps"
    /\ repQ = << >>
    /\ pc' = "bundles"
    /\ UNCHANGED << roots, ri, bundleQ, bundle, repQ, rows, warnings, runs_agg, groups, files,
                    exit_code, nan_ids, visits, last, valid_by_root, n_bad, dockerVars, callVars >>

\* ------------------------------------------------------------- main
\* collect_runs has returned: warn when nothing was collected, write
\* runs_long.csv; an exception of write_csv ends main
WriteLong ==
    /\ pc = "roots"
    /\ ri > Len(roots)
    /\ warnings' = IF rows = << >> THEN Append(warnings, [kind |-> "no_runs", root |-> 0])
                   ELSE warnings
    /\ files' = [files EXCEPT !["runs_long.csv"] =
                    [exists |-> TRUE] @@ write_csv(RUNS_LONG_COLUMNS, rows)]
    /\ pc' = IF WriteRaises(RUNS_LONG_COLUMNS, rows) THEN "raised" ELSE "aggregate"
    /\ exit_code' = IF WriteRaises(RUNS_LONG_COLUMNS, rows) THEN 1 ELSE exit_code
    /\ UNCHANGED << roots, ri, bundleQ, bundle, repQ, rows, runs_agg, groups,
                    nan_ids, visits, last, valid_by_root, n_bad, dockerVars, callVars >>

Aggregate ==
    /\ pc = "aggregate"
    /\ groups' = SortedGroups(rows, nan_ids)
    /\ runs_agg' = aggregate_runs(rows, nan_ids)
    /\ nan_ids' = nan_ids + Len(rows) + 8 * (Len(rows) + 1)
    /\ pc' = "write_agg"
    /\ UNCHANGED << rows, walkVars, dockerVars, callVars >>

\* write runs_agg.csv, print the two paths, return 0; an exception of
\* write_csv ends main
WriteAgg ==
    /\ pc = "write_agg"
    /\ files' = [files EXCEPT !["runs_agg.csv"] =
                    [exists |-> TRUE] @@ write_csv(RUNS_AGG_COLUMNS, runs_agg)]
    /\ exit_code' = IF WriteRaises(RUNS_AGG_COLUMNS, runs_agg) THEN 1 ELSE 0
    /\ pc' = IF WriteRaises(RUNS_AGG_COLUMNS, runs_agg) THEN "raised" ELSE "exit"
    /\ UNCHANGED << roots, ri, bundleQ, bundle, repQ, rows, warnings, runs_agg, groups,
                    nan_ids, visits, last, valid_by_root, n_bad, dockerVars, callVars >>

Next ==
    \/ SkipRoot
    \/ EnterRoot
    \/ SkipEntry
    \/ EnterBundle
    \/ LeaveRoot
    \/ SkipDir
    \/ VisitRep
    \/ LeaveBundle
    \/ WriteLong
    \/ Aggregate
    \/ WriteAgg

Spec == Init /\ [][Next]_vars

\* ------------------------------------------------------------- aggregate_runs on its own
WalkIdle ==
    /\ roots = << >>
    /\ ri = 1
    /\ bundleQ = << >>
    /\ bundle = NoBundle
    /\ repQ = << >>
    /\ warnings = << >>
    /\ files = [f \in {"runs_long.csv", "runs_agg.csv"} |-> NoFile]
    /\ exit_code = -1
    /\ visits = 0
    /\ last = NoVisit
    /\ valid_by_root = << >>
    /\ n_bad = 0

\* main at the call of aggregate_runs, with Long Records still to be drawn; the
\* float objects 1..3 are those of RecordPool
InitAgg ==
    /\ pc = "aggregate"
    /\ rows = << >>
    /\ runs_agg = << >>
    /\ groups = << >>
    /\ nan_ids = 3
    /\ WalkIdle
    /\ DockerIdle
    /\ CallIdle

\* one more Long Record in the list handed to aggregate_runs
AddRecord ==
    /\ pc = "aggregate"
    /\ Len(rows) < MaxRecs
    /\ \E r \in RecordPool : rows' = Append(rows, r)
    /\ UNCHANGED << pc, runs_agg, groups, nan_ids, walkVars, dockerVars, callVars >>

NextAgg ==
    \/ AddRecord
    \/ Aggregate
    \/ WriteAgg

SpecAgg == InitAgg /\ [][NextAgg]_vars

\* ------------------------------------------------------------- compute_docker_averages on its own
\* a readable resource log with no samples yet, and the two endpoints
InitDocker ==
    /\ pc = "docker"
    /\ rows = << >>
    /\ runs_agg = << >>
    /\ groups = << >>
    /\ nan_ids = 0
    /\ WalkIdle
    /\ dfile = [exists |-> TRUE, err |-> 0, rows |-> << >>]
    /\ dstart \in StartPool
    /\ dend \in EndPool
    /\ davg = [out |-> AllNaN, warns |-> << >>]
    /\ CallIdle

\* one more sample in the resource log
AddSample ==
    /\ pc = "docker"
    /\ Len(dfile.rows) < MaxSamples
    /\ \E s \in SamplePool : dfile' = [dfile EXCEPT !.rows = Append(@, s)]
    /\ UNCHANGED << pc, rows, runs_agg, groups, nan_ids, walkVars, dstart, dend, davg, callVars >>

\* the call compute_docker_averages(docker_csv_path, start_iso, end_iso)
ComputeAverages ==
    /\ pc = "docker"
    /\ davg' = compute_docker_averages(dfile, dstart, dend)
    /\ pc' = "docker_done"
    /\ UNCHANGED << rows, runs_agg, groups, nan_ids, walkVars, dfile, dstart, dend, callVars >>

NextDocker ==
    \/ AddSample
    \/ ComputeAverages

SpecDocker == InitDocker /\ [][NextDocker]_vars

\* ------------------------------------------------------------- the row assembler on its own
\* collect_runs at a bundle of the root a; the summary of every replication of
\* the bundle is the object with the members summary, every log is readable
InitRow ==
    /\ pc = "bundles"
    /\ roots = << [name |-> << "a" >>, kind |-> "dir"] >>
    /\ ri = 1
    /\ \E b \in {e \in BundlePool : e.isdir} : bundleQ = << b >>
    /\ bundle = NoBundle
    /\ repQ = << >>
    /\ rows = << >>
    /\ warnings = << >>
    /\ runs_agg = << >>
    /\ groups = << >>
    /\ files = [f \in {"runs_long.csv", "runs_agg.csv"} |-> NoFile]
    /\ exit_code = -1
    /\ nan_ids = 0
    /\ visits = 0
    /\ last = NoVisit
    /\ valid_by_root = << 0 >>
    /\ n_bad = 0
    /\ DockerIdle
    /\ summary \in SummaryObjects
    /\ ts = << >>
    /\ ts_dt = DtFail
    /\ mem_usage = << >>
    /\ mem_mib = NumNaN

\* the two files of a replication in SpecRow
SummaryFile == [state |-> "ok", doc |-> JObject(summary)]

ReadableLog == [exists |-> TRUE, err |-> 0, rows |-> LogRows]

\* the body of the loop for a directory rep<N> that holds SummaryFile and
\* ReadableLog
AssembleRow ==
    /\ pc = "reps"
    /\ repQ # << >>
    /\ parse_rep_int(Head(repQ).name) # -1
    /\ Visit(SummaryFile, ReadableLog,
             RepOutcome(roots[ri].name, bundle.name, parse_rep_int(Head(repQ).name),
                        bundle.meta, SummaryFile, ReadableLog, nan_ids + 1))
    /\ repQ' = Tail(repQ)
    /\ nan_ids' = nan_ids + 7
    /\ visits' = visits + 1
    /\ UNCHANGED << roots, ri, bundleQ, bundle, runs_agg, groups, files, dockerVars, callVars >>

NextRow ==
    \/ EnterBundle
    \/ SkipDir
    \/ AssembleRow
    \/ LeaveBundle

SpecRow == InitRow /\ [][NextRow]_vars

\* ------------------------------------------------------------- main after the walk, on its own
\* main at the return of collect_runs, with the records still to be drawn; the
\* float objects 1..2 are those of LoosePool
InitWrite ==
    /\ pc = "roots"
    /\ rows = << >>
    /\ runs_agg = << >>
    /\ groups = << >>
    /\ nan_ids = 2
    /\ WalkIdle
    /\ DockerIdle
    /\ CallIdle

\* one more record in the list collect_runs returns
AddLoose ==
    /\ pc = "roots"
    /\ Len(rows) < MaxRecs
    /\ \E r \in LoosePool : rows' = Append(rows, r)
    /\ UNCHANGED << pc, runs_agg, groups, nan_ids, walkVars, dockerVars, callVars >>

NextWrite ==
    \/ AddLoose
    \/ WriteLong
    \/ Aggregate
    \/ WriteAgg

SpecWrite == InitWrite /\ [][NextWrite]_vars

\* ------------------------------------------------------------- the metadata extractor on its own
\* collect_runs at one entry of the root a, a directory or not, whose name is
\* any of NamePool
InitMeta ==
    /\ pc = "bundles"
    /\ roots = << [name |-> << "a" >>, kind |-> "dir"] >>
    /\ ri = 1
    /\ \E name \in NamePool, isdir \in BOOLEAN : bundleQ = << [name |-> name, isdir |-> isdir] >>
    /\ bundle = NoBundle
    /\ repQ = << >>
    /\ rows = << >>
    /\ warnings = << >>
    /\ runs_agg = << >>
    /\ groups = << >>
    /\ files = [f \in {"runs_long.csv", "runs_agg.csv"} |-> NoFile]
    /\ exit_code = -1
    /\ nan_ids = 0
    /\ visits = 0
    /\ last = NoVisit
    /\ valid_by_root = << 0 >>
    /\ n_bad = 0
    /\ DockerIdle
    /\ CallIdle

NextMeta ==
    \/ SkipEntry
    \/ EnterBundle

SpecMeta == InitMeta /\ [][NextMeta]_vars

\* ------------------------------------------------------------- the timestamp parser on its own
\* what a timestamp string starts with: nothing, a blank, other text, a
\* date-time lexeme, one after a blank
StampStarts ==
    { << >>, << " " >>, << "x" >>, << "00:00:10" >>, << " ", "01:00:20" >> }

\* the digits a fraction is written with
FractionDigits == {"0", "7"}

\* what a timestamp string ends with: "Z", an offset, an offset and a blank
StampZones == { << "Z" >>, << "+00:00" >>, << "+01:00" >>, << "-01:00" >>, << "Z", " " >> }

\* the number of digits that end s
DigitsAtEnd(s) == SuffixLen(s, DigitChars)

\* a caller at the call of parse_iso_dt with a string still to be completed
InitStamp ==
    /\ pc = "stamp"
    /\ rows = << >>
    /\ runs_agg = << >>
    /\ groups = << >>
    /\ nan_ids = 0
    /\ WalkIdle
    /\ DockerIdle
    /\ summary = << >>
    /\ ts \in StampStarts
    /\ ts_dt = DtFail
    /\ mem_usage = << >>
    /\ mem_mib = NumNaN

\* one more digit in the fraction of the string, after a "." when it is the first
AddDigit ==
    /\ pc = "stamp"
    /\ ts # << >>
    /\ ts[Len(ts)] \notin {" ", "."}
    /\ \A i \in 1..Len(ts) : ts[i] \notin DOMAIN OffsetSec \cup {"Z"}
    /\ DigitsAtEnd(ts) < MaxDigits
    /\ \E d \in FractionDigits :
          ts' = IF DigitsAtEnd(ts) = 0 THEN ts \o << ".", d >> ELSE Append(ts, d)
    /\ UNCHANGED << pc, rows, runs_agg, groups, nan_ids, walkVars, dockerVars, summary, ts_dt, mem_usage, mem_mib >>

\* a zone at the end of the string
AddZone ==
    /\ pc = "stamp"
    /\ ts # << >>
    /\ ts[Len(ts)] # " "
    /\ \A i \in 1..Len(ts) : ts[i] \notin DOMAIN OffsetSec \cup {"Z"}
    /\ \E z \in StampZones : ts' = ts \o z
    /\ UNCHANGED << pc, rows, runs_agg, groups, nan_ids, walkVars, dockerVars, summary, ts_dt, mem_usage, mem_mib >>

\* the call parse_iso_dt(ts)
ParseStamp ==
    /\ pc = "stamp"
    /\ ts_dt' = parse_iso_dt(ts)
    /\ pc' = "stamp_done"
    /\ UNCHANGED << rows, runs_agg, groups, nan_ids, walkVars, dockerVars, summary, ts, mem_usage, mem_mib >>

NextStamp ==
    \/ AddDigit
    \/ AddZone
    \/ ParseStamp

SpecStamp == InitStamp /\ [][NextStamp]_vars

\* ------------------------------------------------------------- the memory parser on its own
\* what a usage text starts with: nothing, magnitudes with and without a
\* point, one after a blank, texts that are no magnitude
MagnitudePool ==
    { << >>, << "0" >>, << "1" >>, << "5", "1", "2" >>, << "1", ".", "5" >>, << ".", "5" >>,
      << " ", "2" >>, << "1", "." >>, << "1", ".", "5", "." >>, << "-", "1" >>, << "x" >> }

\* the units a usage text is written with: the eight of mem_to_mib, some of
\* them in another case, others
UnitPool ==
    { << "B" >>, << "K", "i", "B" >>, << "M", "i", "B" >>, << "G", "i", "B" >>,
      << "T", "i", "B" >>, << "K", "B" >>, << "M", "B" >>, << "G", "B" >>,
      << "b" >>, << "k", "i", "b" >>, << "M", "I", "B" >>, << "G", "b" >>,
      << "P", "i", "B" >>, << "M", "i", "B", "s" >> }

\* what follows the used part: a "/" and a limit
LimitPool ==
    { << "/" >>, << " ", "/", " ", "2", "G", "i", "B" >>, << "/", "x", "/", "1", "B" >> }

\* a caller at the call of parse_mem_usage_to_mib with a text still to be completed
InitMem ==
    /\ pc = "mem"
    /\ rows = << >>
    /\ runs_agg = << >>
    /\ groups = << >>
    /\ nan_ids = 0
    /\ WalkIdle
    /\ DockerIdle
    /\ summary = << >>
    /\ ts = << >>
    /\ ts_dt = DtFail
    /\ mem_usage \in MagnitudePool
    /\ mem_mib = NumNaN

\* a unit after the magnitude, with or without a blank between them
AddUnit ==
    /\ pc = "mem"
    /\ \A i \in 1..Len(mem_usage) : mem_usage[i] \notin LetterChars \cup {"/"}
    /\ \E blank \in {<< >>, << " " >>}, unit \in UnitPool : mem_usage' = mem_usage \o blank \o unit
    /\ UNCHANGED << pc, rows, runs_agg, groups, nan_ids, walkVars, dockerVars, summary, ts, ts_dt,
                    mem_mib >>

\* the limit after the used part
AddLimit ==
    /\ pc = "mem"
    /\ \A i \in 1..Len(mem_usage) : mem_usage[i] # "/"
    /\ \E limit \in LimitPool : mem_usage' = mem_usage \o limit
    /\ UNCHANGED << pc, rows, runs_agg, groups, nan_ids, walkVars, dockerVars, summary, ts, ts_dt,
                    mem_mib >>

\* the call parse_mem_usage_to_mib(mem_usage)
ParseMem ==
    /\ pc = "mem"
    /\ mem_mib' = parse_mem_usage_to_mib(PyStr(mem_usage))
    /\ pc' = "mem_done"
    /\ UNCHANGED << rows, runs_agg, groups, nan_ids, walkVars, dockerVars, summary, ts, ts_dt,
                    mem_usage >>

NextMem ==
    \/ AddUnit
    \/ AddLimit
    \/ ParseMem

SpecMem == InitMem /\ [][NextMem]_vars

\* ------------------------------------------------------------- properties of the walk
\* collect_runs has returned to main
Collected == pc \in {"aggregate", "write_agg", "exit"}

\* the Long Records root number i contributed
RowsOfRoot(i) == {k \in 1..Len(rows) : rows[k]["root_id"] = PyStr(roots[i].name)}

RootWarned(i) ==
    \E k \in 1..Len(warnings) : warnings[k] = [kind |-> "root_not_found", root |-> i]

\* C1: with at most one replication whose summary file is missing, unreadable,
\* invalid, empty or JSON of another shape than a non-empty object, collect_runs
\* never ends in an exception, and when it has returned there is a Long Record
\* for every replication that has a non-empty object summary and a resource log.
C1_OneBadRepNeverAborts ==
    n_bad <= 1 =>
        /\ pc # "raised"
        /\ Collected => Len(rows) >= SumInts(valid_by_root)

\* C2: main never ends in a traceback, and when it has ended it returned 0,
\* both files are written with their full headers, every root that is missing
\* or not a directory gave no Long Record and a warning, and every other root
\* gave a record for each of its valid replications.
C2_BadRootsTolerated ==
    /\ pc # "raised"
    /\ pc = "exit" =>
          /\ exit_code = 0
          /\ files["runs_long.csv"].exists /\ files["runs_long.csv"].header = RUNS_LONG_COLUMNS
          /\ files["runs_agg.csv"].exists /\ files["runs_agg.csv"].header = RUNS_AGG_COLUMNS
          /\ Len(files["runs_long.csv"].body) = Len(rows)
          /\ \A i \in 1..Len(roots) :
                IF roots[i].kind = "dir"
                THEN Cardinality(RowsOfRoot(i)) >= valid_by_root[i] /\ ~RootWarned(i)
                ELSE RowsOfRoot(i) = {} /\ RootWarned(i)

\* C3: the directory examined last added exactly one Long Record if and only if
\* its name matches rep<N>, its summary and its resource log exist and the
\* summary parses to a non-empty value; a matching directory that added none
\* logged a warning; a directory that does not match added none and logged none.
C3_RecordIffComplete ==
    last.seen =>
        /\ last.added \in {0, 1}
        /\ last.added = 1 <=>
              (last.matches /\ last.sum_state = "ok" /\ last.truthy /\ last.docker_exists)
        /\ (last.matches /\ last.added = 0) => last.warned >= 1
        /\ ~last.matches => (last.added = 0 /\ last.warned = 0)

\* the replication examined last has a non-empty object summary and a resource
\* log that exists but raises while it is read
LogUnreadable == last.seen /\ last.matches /\ last.object /\ last.docker_exists /\ last.docker_err > 0

ResourceColumns ==
    {"postgis_cpu_avg_pct", "geoserver_cpu_avg_pct", "postgis_mem_avg_mib", "geoserver_mem_avg_mib"}

Aggregated == pc \in {"write_agg", "exit"}

\* a key item as it is printed: every not-a-number reads "nan"
Shown(v) == IF v.t = "nan" THEN PyStr(<< "n", "a", "n" >>) ELSE v

\* the key of an Aggregated Record as printed
KeyShown(a) ==
    << Shown(a.scenario), Shown(a.h3_res), Shown(a.zipf_s), Shown(a.target_rps),
       Shown(a.ttl), Shown(a.hot), Shown(a.invalidation) >>

\* C5: no two Aggregated Records carry the same key, a skew that is
\* not-a-number counting as one value.
C5_OneRowPerKey ==
    Aggregated =>
        \A g, h \in 1..Len(runs_agg) : KeyShown(runs_agg[g]) = KeyShown(runs_agg[h]) => g = h

\* the number a parsed text denotes
DenotedBy(p) == [ok |-> p.ok /\ ~p.nan, n |-> p.n, d |-> p.d]

\* the number a value denotes: [ok, n, d]
Denoted(v) ==
    CASE v.t = "int" -> [ok |-> TRUE, n |-> v.n, d |-> 1]
      [] v.t = "float" -> [ok |-> TRUE, n |-> v.n, d |-> v.d]
      [] v.t = "str" -> DenotedBy(ParseFloat(v.s))
      [] OTHER -> [ok |-> FALSE, n |-> 0, d |-> 1]

SameFraction(q, r) == q.n * r.d = r.n * q.d

SameNumber(v, w) == SameFraction(Denoted(v), Denoted(w))

\* the integer part of a number, 0 when there is none
IntegerPart(q) ==
    IF ~q.ok THEN 0 ELSE IF q.n >= 0 THEN q.n \div q.d ELSE -((-q.n) \div q.d)

\* the integer part of the number a value denotes, 0 when it denotes none
Coerced(v) == IntegerPart(Denoted(v))

\* records i and j were reduced into the same group
SameGroup(i, j) ==
    \E g \in 1..Len(groups) : i \in Range(groups[g].rs) /\ j \in Range(groups[g].rs)

\* records i and j agree on scenario, TTL, hot-set and invalidation
AgreeOnText(i, j) ==
    /\ rows[i]["scenario"] = rows[j]["scenario"]
    /\ \A c \in {"ttl", "hot", "invalidation"} : StrOrEmpty(rows[i][c]) = StrOrEmpty(rows[j][c])

\* resolution, skew and target of record i each denote a number
Numeric(i) == \A c \in {"h3_res", "zipf_s", "target_rps"} : Denoted(rows[i][c]).ok

\* C6 as stated: two records that agree on the text fields and whose
\* resolution, skew and target denote numbers share a group if and only if the
\* three denote the same numbers.
C6_SameNumbersIffSameGroup ==
    Aggregated =>
        \A i, j \in 1..Len(rows) :
            (Numeric(i) /\ Numeric(j) /\ AgreeOnText(i, j)) =>
                (SameGroup(i, j) <=>
                    \A c \in {"h3_res", "zipf_s", "target_rps"} : SameNumber(rows[i][c], rows[j][c]))

\* C6 amended: two records that agree on the text fields and whose skews denote
\* numbers share a group if and only if their skews are the same number and
\* their resolutions and their targets are equal after coercion to an integer
\* (the part before the decimal point; 0 for a value that denotes no number).
C6_CoercedNumbersIffSameGroup ==
    Aggregated =>
        \A i, j \in 1..Len(rows) :
            (Denoted(rows[i]["zipf_s"]).ok /\ Denoted(rows[j]["zipf_s"]).ok /\ AgreeOnText(i, j)) =>
                (SameGroup(i, j) <=>
                    /\ SameNumber(rows[i]["zipf_s"], rows[j]["zipf_s"])
                    /\ Coerced(rows[i]["h3_res"]) = Coerced(rows[j]["h3_res"])
                    /\ Coerced(rows[i]["target_rps"]) = Coerced(rows[j]["target_rps"]))

\* the int 800 and the str " 800.0 " were grouped together, and a target that
\* denotes no number was grouped apart
C6_Witness ==
    /\ Aggregated
    /\ \E i, j \in 1..Len(rows) :
          /\ rows[i]["target_rps"] = PyInt(800)
          /\ rows[j]["target_rps"].t = "str" /\ Len(rows[j]["target_rps"].s) > 3
          /\ SameGroup(i, j)
    /\ \E i, j \in 1..Len(rows) : Numeric(i) /\ ~Denoted(rows[j]["target_rps"]).ok /\ ~SameGroup(i, j)

Perms(n) == {p \in [1..n -> 1..n] : \A a, b \in 1..n : p[a] = p[b] => a = b}

Permuted(rs, p) == [k \in 1..Len(rs) |-> rs[p[k]]]

\* C7: the Aggregated Records are in ascending order of their keys (no record
\* comes before one with a smaller key), and the printed table is the same for
\* every permutation of the Long Records.
C7_SortedWhateverTheOrder ==
    Aggregated =>
        /\ \A g, h \in 1..Len(groups) : g < h => ~TupleLt(groups[h].key, groups[g].key)
        /\ \A p \in Perms(Len(rows)) :
              write_csv(RUNS_AGG_COLUMNS, aggregate_runs(Permuted(rows, p), nan_ids)).body
                  = write_csv(RUNS_AGG_COLUMNS, runs_agg).body

\* the metrics aggregate_runs reduces by their median, and the column of each
MedianColumn ==
    [p50_ms |-> "p50_ms_median", p95_ms |-> "p95_ms_median", p99_ms |-> "p99_ms_median",
     throughput_rps |-> "throughput_rps_median",
     postgis_cpu_avg_pct |-> "postgis_cpu_avg_pct_median",
     geoserver_cpu_avg_pct |-> "geoserver_cpu_avg_pct_median",
     postgis_mem_avg_mib |-> "postgis_mem_avg_mib_median",
     geoserver_mem_avg_mib |-> "geoserver_mem_avg_mib_median"]

\* the numbers among the values of metric m in group g
NumericVals(g, m) ==
    SelectSeq([k \in 1..Len(groups[g].rs) |-> Denoted(rows[groups[g].rs[k]][m])],
              LAMBDA q : q.ok)

LessThan(q, r) == q.n * r.d < r.n * q.d

\* the k-th smallest of vals: fewer than k values are below it, at least k are
\* not above it
Kth(vals, k) ==
    CHOOSE y \in Range(vals) :
        /\ Cardinality({i \in 1..Len(vals) : LessThan(vals[i], y)}) <= k - 1
        /\ Cardinality({i \in 1..Len(vals) : ~LessThan(y, vals[i])}) >= k

\* x is the median of the non-empty vals
IsMedianOf(x, vals) ==
    IF Len(vals) % 2 = 1
    THEN x.n * Kth(vals, (Len(vals) + 1) \div 2).d = Kth(vals, (Len(vals) + 1) \div 2).n * x.d
    ELSE 2 * x.n * Kth(vals, Len(vals) \div 2).d * Kth(vals, (Len(vals) \div 2) + 1).d
            = x.d * (Kth(vals, Len(vals) \div 2).n * Kth(vals, (Len(vals) \div 2) + 1).d
                     + Kth(vals, (Len(vals) \div 2) + 1).n * Kth(vals, Len(vals) \div 2).d)

\* C8: every Long Record is in exactly one group; n_reps of a group is the
\* number of its records; each median column is the median of the group's
\* values that denote numbers, and not-a-number when there is none.
C8_MedianIgnoresNaN ==
    Aggregated =>
        /\ Len(runs_agg) = Len(groups)
        /\ \A i \in 1..Len(rows) :
              Cardinality({g \in 1..Len(groups) : i \in Range(groups[g].rs)}) = 1
        /\ \A g \in 1..Len(groups) :
              /\ runs_agg[g].n_reps = PyInt(Len(groups[g].rs))
              /\ \A m \in DOMAIN MedianColumn :
                    IF NumericVals(g, m) = << >>
                    THEN IsNaN(runs_agg[g][MedianColumn[m]])
                    ELSE /\ runs_agg[g][MedianColumn[m]].t = "float"
                         /\ IsMedianOf(runs_agg[g][MedianColumn[m]], NumericVals(g, m))

\* one group of four replications with latencies 10, 20, not-a-number and 30:
\* median 20, n_reps 4
C8_Witness ==
    /\ Aggregated
    /\ Len(rows) = 4
    /\ rows[1]["p50_ms"] = PyInt(10)
    /\ rows[2]["p50_ms"] = PyFloat(20, 1)
    /\ IsNaN(rows[3]["p50_ms"])
    /\ rows[4]["p50_ms"] = PyInt(30)
    /\ Len(runs_agg) = 1
    /\ runs_agg[1].p50_ms_median = PyFloat(20, 1)
    /\ runs_agg[1].n_reps = PyInt(4)

\* the errors of the records rs, each read as an integer
RECURSIVE ErrorsOf(_)
ErrorsOf(rs) ==
    IF rs = << >> THEN 0
    ELSE Coerced(rows[rs[Len(rs)]]["errors"]) + ErrorsOf(SubSeq(rs, 1, Len(rs) - 1))

\* C19: errors_sum of every group is the sum over the group's Long Records of
\* the errors field read as an integer, an entry that is missing, blank,
\* not-a-number or otherwise unparsable counting as 0.
C19_ErrorsSummed ==
    Aggregated =>
        \A g \in 1..Len(groups) : runs_agg[g].errors_sum = PyInt(ErrorsOf(groups[g].rs))

\* one group of four replications with errors 1, " 2.7 ", not-a-number and 3:
\* errors_sum 6
C19_Witness ==
    /\ Aggregated
    /\ Len(rows) = 4
    /\ rows[1]["errors"] = PyInt(1)
    /\ rows[2]["errors"] = PyStr(<< " ", "2", ".", "7", " " >>)
    /\ IsNaN(rows[3]["errors"])
    /\ rows[4]["errors"] = PyInt(3)
    /\ Len(runs_agg) = 1
    /\ runs_agg[1].errors_sum = PyInt(6)

\* the sum of n_reps over the Aggregated Records aggs
RECURSIVE RepsOf(_)
RepsOf(aggs) == IF aggs = << >> THEN 0 ELSE Head(aggs).n_reps.n + RepsOf(Tail(aggs))

\* C22: replications are conserved: every Long Record is in exactly one group,
\* the n_reps of the Aggregated Records add up to the number of Long Records,
\* and every n_reps is an integer that is at least 1.
C22_RepsConserved ==
    Aggregated =>
        /\ \A i \in 1..Len(rows) : \E g \in 1..Len(groups) : i \in Range(groups[g].rs)
        /\ \A g, h \in 1..Len(groups) :
              g # h => Range(groups[g].rs) \cap Range(groups[h].rs) = {}
        /\ \A g \in 1..Len(groups) :
              \A a, b \in 1..Len(groups[g].rs) : groups[g].rs[a] = groups[g].rs[b] => a = b
        /\ RepsOf(runs_agg) = Len(rows)
        /\ \A g \in 1..Len(runs_agg) : runs_agg[g].n_reps.t = "int" /\ runs_agg[g].n_reps.n >= 1

\* four replications in two groups, one of three and one of one, the skew of
\* the latter not-a-number
C22_Witness ==
    /\ Aggregated
    /\ Len(rows) = 4
    /\ Len(runs_agg) = 2
    /\ \E g, h \in 1..2 :
          /\ runs_agg[g].n_reps = PyInt(3)
          /\ runs_agg[h].n_reps = PyInt(1)
          /\ IsNaN(runs_agg[h].zipf_s)

\* ------------------------------------------------------------- properties of the averager
\* compute_docker_averages has returned
Computed == pc = "docker_done"

\* both endpoints are given and parse
WindowParses ==
    /\ Truthy(dstart) /\ Truthy(dend)
    /\ parse_iso_dt(dstart.s).ok /\ parse_iso_dt(dend.s).ok

\* the timestamp of a sample
StampOf(row) == parse_iso_dt(Strip(OrEmpty(row.ts)))

\* a is an earlier instant than b, a timestamp without an offset read as UTC
Earlier(a, b) == a.sec < b.sec \/ (a.sec = b.sec /\ a.us < b.us)

\* the sample's timestamp lies in [start, end], both endpoints included
Inside(row) ==
    /\ StampOf(row).ok
    /\ ~Earlier(StampOf(row), parse_iso_dt(dstart.s))
    /\ ~Earlier(parse_iso_dt(dend.s), StampOf(row))

\* the samples of container whose timestamp lies in the window
InsideOf(container) ==
    SelectSeq(dfile.rows, LAMBDA row : ContainerOf(row) = container /\ Inside(row))

\* C9: when both endpoints parse, the averages are those over exactly the
\* samples of each tracked process whose timestamp lies in [start, end], the
\* endpoints included, whatever the shapes of the three timestamps.
C9_WindowRetainsInside ==
    (Computed /\ WindowParses) =>
        davg.out = Averages(InsideOf(POSTGIS), InsideOf(GEOSERVER))

\* every sample of container
AllOf(container) == SelectSeq(dfile.rows, LAMBDA row : ContainerOf(row) = container)

Stamped(row) == StampOf(row).ok

\* the samples of container whose own timestamp parses
StampedOf(container) ==
    SelectSeq(dfile.rows, LAMBDA row : ContainerOf(row) = container /\ Stamped(row))

\* C10 as stated: when an endpoint is missing or does not parse, the averages
\* are those over every sample of each tracked process, whatever its timestamp.
C10_NoWindowKeepsAll ==
    (Computed /\ ~WindowParses) =>
        davg.out = Averages(AllOf(POSTGIS), AllOf(GEOSERVER))

\* C10 amended: when an endpoint is missing or does not parse, the call
\* returns, warns once if both endpoints were given, and the averages are those
\* over every sample of each tracked process whose own timestamp parses; a
\* sample whose timestamp is empty or does not parse contributes nothing.
C10_NoWindowKeepsStamped ==
    (Computed /\ ~WindowParses) =>
        /\ davg.out = Averages(StampedOf(POSTGIS), StampedOf(GEOSERVER))
        /\ davg.warns = IF Truthy(dstart) /\ Truthy(dend) THEN << "ts_window_failed" >> ELSE << >>

\* no window, a postgis sample after the run's end that counts, and one with an
\* empty timestamp that does not
C10_Witness ==
    /\ Computed
    /\ ~WindowParses
    /\ \E i \in 1..Len(dfile.rows) :
          ContainerOf(dfile.rows[i]) = POSTGIS /\ ~Stamped(dfile.rows[i])
    /\ \E i \in 1..Len(dfile.rows) : dfile.rows[i] = LogRows[3]
    /\ ~davg.out.postgis_cpu_avg_pct.nan

\* ------------------------------------------------------------- properties of the row assembler
\* member k of the summary; None when it has no such member
Field(k) == IF k \in DOMAIN summary THEN summary[k] ELSE PyNone

\* the summary has a member k that is neither null nor the empty string
Supplied(k) == Field(k) # PyNone /\ Field(k) # Blank

\* member k of the summary denotes a number
IsNumber(k) == Denoted(Field(k)).ok

\* the float x is the quotient of the numbers q and r
IsQuotient(x, q, r) == x.t = "float" /\ x.n * r.n * q.d = q.n * r.d * x.d

\* the target of the summary is zero, missing or non-numeric
TargetUndefined == ~IsNumber("target_rps") \/ Denoted(Field("target_rps")).n = 0

\* C11 as stated: the ratio of every Long Record is the summary's own value
\* when the summary carries a non-blank one; otherwise it is throughput_rps /
\* target_rps, and not-a-number exactly when target_rps is zero, missing or
\* non-numeric.
C11_RatioUndefinedIffTargetIs ==
    \A i \in 1..Len(rows) :
        IF Supplied("achieved_to_target_ratio")
        THEN rows[i]["achieved_to_target_ratio"] = summary["achieved_to_target_ratio"]
        ELSE /\ IsNaN(rows[i]["achieved_to_target_ratio"]) <=> TargetUndefined
             /\ ~TargetUndefined =>
                    IsQuotient(rows[i]["achieved_to_target_ratio"],
                               Denoted(Field("throughput_rps")), Denoted(Field("target_rps")))

\* C11 amended: the ratio of every Long Record is the summary's own value when
\* the summary carries one that is neither null nor the empty string (a 0 and a
\* text are kept); otherwise it is not-a-number when target_rps is zero,
\* missing or non-numeric or when throughput_rps is missing or non-numeric, and
\* else the float throughput_rps / target_rps.
C11_RatioOwnOrDerived ==
    \A i \in 1..Len(rows) :
        IF Supplied("achieved_to_target_ratio")
        THEN rows[i]["achieved_to_target_ratio"] = summary["achieved_to_target_ratio"]
        ELSE IF TargetUndefined \/ ~IsNumber("throughput_rps")
        THEN IsNaN(rows[i]["achieved_to_target_ratio"])
        ELSE IsQuotient(rows[i]["achieved_to_target_ratio"],
                        Denoted(Field("throughput_rps")), Denoted(Field("target_rps")))

\* a summary whose ratio is the empty string, with throughput 400.0 and target
\* "800", gave a record with the ratio 0.5
C11_Witness ==
    /\ Len(rows) >= 1
    /\ "achieved_to_target_ratio" \in DOMAIN summary
    /\ summary["achieved_to_target_ratio"] = Blank
    /\ Field("throughput_rps") = PyFloat(400, 1)
    /\ Field("target_rps") = PyStr(<< "8", "0", "0" >>)
    /\ rows[1]["achieved_to_target_ratio"] = PyFloat(1, 2)

\* ------------------------------------------------------------- properties of the metadata extractor
\* parse_bundle_meta has been applied to the name of a bundle
Parsed_ == bundle # NoBundle

\* name begins with word
Begins(name, word) ==
    Len(name) >= Len(word) /\ \A k \in 1..Len(word) : name[k] = word[k]

\* word occurs somewhere in name
Has(name, word) ==
    \E i \in 1..Len(name) :
        i + Len(word) - 1 <= Len(name) /\ \A k \in 1..Len(word) : name[i + k - 1] = word[k]

UNKNOWN == << "u", "n", "k", "n", "o", "w", "n" >>

\* C12 as stated: a name that starts with "baseline" is baseline; one that
\* starts with "cache" is cache, also when "baseline" occurs later in it; a
\* name with neither prefix is baseline if it contains "baseline", else cache
\* if it contains "cache", else unknown.
C12_PrefixWordDecides ==
    Parsed_ =>
        bundle.meta.scenario =
            IF Begins(bundle.name, S_baseline) THEN S_baseline
            ELSE IF Begins(bundle.name, S_cache) THEN S_cache
            ELSE IF Has(bundle.name, S_baseline) THEN S_baseline
            ELSE IF Has(bundle.name, S_cache) THEN S_cache
            ELSE UNKNOWN

\* the name without the blanks around it
Trimmed(name) ==
    SubSeq(name, 1 + PrefixLen(name, {" "}), Len(name) - SuffixLen(name, {" "}))

\* C12 amended: on the name without surrounding blanks, the prefixes that
\* decide are "baseline-" and "cache-", hyphen included: a name that starts
\* with "baseline-" is baseline; one that starts with "cache-" is cache, also
\* when "baseline" occurs later in it; any other name is baseline if it
\* contains "baseline", else cache if it contains "cache", else unknown (so
\* "cachebaseline" is baseline).
C12_HyphenedPrefixDecides ==
    Parsed_ =>
        bundle.meta.scenario =
            IF Begins(Trimmed(bundle.name), S_baseline \o << "-" >>) THEN S_baseline
            ELSE IF Begins(Trimmed(bundle.name), S_cache \o << "-" >>) THEN S_cache
            ELSE IF Has(bundle.name, S_baseline) THEN S_baseline
            ELSE IF Has(bundle.name, S_cache) THEN S_cache
            ELSE UNKNOWN

\* the name "cache-baseline" was classified cache
C12_Witness ==
    /\ Parsed_
    /\ bundle.name = S_cache \o << "-" >> \o S_baseline
    /\ bundle.meta.scenario = S_cache

\* ------------------------------------------------------------- the tokens of a bundle name
\* tok is one or more characters of set
RunOf(tok, set) == tok # << >> /\ \A k \in 1..Len(tok) : tok[k] \in set

\* the texts tok for which pat, tok and then close stand at position i of name,
\* tok being one or more characters of set
TokensAt(name, i, pat, set, close) ==
    {tok \in {SubSeq(name, i + Len(pat), b) : b \in i + Len(pat)..Len(name)} :
        RunOf(tok, set) /\ Begins(SubSeq(name, i, Len(name)), pat \o tok \o close)}

\* the numbers for which "-zipfs" and the number stand at position i of name:
\* digits, or digits, a point and digits
NumbersAt(name, i) ==
    TokensAt(name, i, ZIPFS, DigitChars, << >>)
    \cup {tok \in TokensAt(name, i, ZIPFS, DigitChars \cup {"."}, << >>) :
            \E k \in 2..Len(tok) - 1 :
                /\ tok[k] = "."
                /\ RunOf(SubSeq(tok, 1, k - 1), DigitChars)
                /\ RunOf(SubSeq(tok, k + 1, Len(tok)), DigitChars)}

\* the tokens after pat at each position of name
TokenSets(name, pat, set) ==
    [i \in 1..Len(name) |-> TokensAt(name, i, pat, set, << "-" >>)]

\* the numbers after "-zipfs" at each position of name
NumberSets(name) == [i \in 1..Len(name) |-> NumbersAt(name, i)]

\* the first position where sets is not empty; 0 when there is none
FirstOf(sets) ==
    IF \A i \in 1..Len(sets) : sets[i] = {} THEN 0
    ELSE CHOOSE i \in 1..Len(sets) : sets[i] # {} /\ \A j \in 1..i - 1 : sets[j] = {}

\* tok is the first token of sets, dflt when there is none
IsFirstToken(tok, sets, dflt) ==
    IF FirstOf(sets) = 0 THEN tok = dflt ELSE tok \in sets[FirstOf(sets)]

\* n is the first integer of sets, 0 when there is none
IsFirstInteger(n, sets) ==
    IF FirstOf(sets) = 0 THEN n = 0 ELSE \E tok \in sets[FirstOf(sets)] : n = DigitsToNat(tok)

\* the longest text of a non-empty set of texts
Longest(toks) == CHOOSE tok \in toks : \A u \in toks : Len(u) <= Len(tok)

\* the float x is the number that the text tok writes: digits, or digits, a
\* point and digits
Writes(tok, x) ==
    /\ x.t = "float"
    /\ \/ RunOf(tok, DigitChars) /\ x.n = x.d * DigitsToNat(tok)
       \/ \E k \in 2..Len(tok) - 1 :
             /\ tok[k] = "."
             /\ RunOf(SubSeq(tok, 1, k - 1), DigitChars)
             /\ RunOf(SubSeq(tok, k + 1, Len(tok)), DigitChars)
             /\ x.n * Pow10(Len(tok) - k)
                   = x.d * (DigitsToNat(SubSeq(tok, k + 1, Len(tok)))
                            + Pow10(Len(tok) - k) * DigitsToNat(SubSeq(tok, 1, k - 1)))

\* x is the first number of sets, the longest that stands there;
\* not-a-number when there is none
IsFirstNumber(x, sets) ==
    IF FirstOf(sets) = 0 THEN IsNaN(x) ELSE Writes(Longest(sets[FirstOf(sets)]), x)

\* C18: for every name, the resolution is the first integer matched by
\* -r<digits>- or 0; ttl, hot and invalidation are the first token without a
\* hyphen matched by -ttl<token>-, -hot<token>-, -inv<token>- or the empty
\* string; the skew is the first number matched by -zipfs<number>, with no
\* delimiter after it, or not-a-number.
C18_FirstTokensOrDefaults ==
    Parsed_ =>
        /\ IsFirstInteger(bundle.meta.h3_res, TokenSets(bundle.name, << "-", "r" >>, DigitChars))
        /\ IsFirstToken(bundle.meta.ttl,
                        TokenSets(bundle.name, << "-", "t", "t", "l" >>, NonHyphen), << >>)
        /\ IsFirstToken(bundle.meta.hot,
                        TokenSets(bundle.name, << "-", "h", "o", "t" >>, NonHyphen), << >>)
        /\ IsFirstToken(bundle.meta.invalidation,
                        TokenSets(bundle.name, << "-", "i", "n", "v" >>, NonHyphen), << >>)
        /\ IsFirstNumber(bundle.meta.zipf_s_from_folder, NumberSets(bundle.name))

\* the name cache-r9-ttl60-hotwarm-invlazy-zipfs1.3 gave
\* (cache, 9, "60", "warm", "lazy", 1.3)
C18_Witness ==
    /\ Parsed_
    /\ bundle.name = << "c", "a", "c", "h", "e", "-", "r", "9", "-", "t", "t", "l", "6", "0",
                        "-", "h", "o", "t", "w", "a", "r", "m", "-", "i", "n", "v", "l", "a", "z", "y",
                        "-", "z", "i", "p", "f", "s", "1", ".", "3" >>
    /\ bundle.meta = [scenario |-> S_cache, h3_res |-> 9, ttl |-> << "6", "0" >>,
                      hot |-> << "w", "a", "r", "m" >>, invalidation |-> << "l", "a", "z", "y" >>,
                      zipf_s_from_folder |-> PyFloat(13, 10)]

\* ------------------------------------------------------------- the skew of a record
\* a bundle name that embeds the skew 1.3
SkewedName ==
    << "c", "a", "c", "h", "e", "-", "r", "9", "-", "t", "t", "l", "6", "0",
       "-", "z", "i", "p", "f", "s", "1", ".", "3" >>

\* name embeds a Zipf skew: "-zipfs" and a digit
EmbedsSkew(name) == \E d \in DigitChars : Has(name, ZIPFS \o << d >>)

\* C17: the zipf_s of every Long Record is the summary's zipf_s when the
\* summary supplies one (a 0 is kept); when it is absent, null or the empty
\* string it is the skew embedded in the bundle name, which is not-a-number
\* when the name embeds none.
C17_SkewOwnOrEmbedded ==
    \A i \in 1..Len(rows) :
        IF Supplied("zipf_s")
        THEN rows[i]["zipf_s"] = summary["zipf_s"]
        ELSE /\ rows[i]["zipf_s"] = rows[i]["zipf_s_from_folder"]
             /\ IsNaN(rows[i]["zipf_s"]) <=> ~EmbedsSkew(rows[i]["bundle_name"].s)
             /\ rows[i]["bundle_name"].s = SkewedName => rows[i]["zipf_s"] = PyFloat(13, 10)

\* a summary whose zipf_s is the empty string, in the bundle
\* cache-r9-ttl60-zipfs1.3, gave a record with the skew 1.3
C17_Witness ==
    /\ Len(rows) >= 1
    /\ "zipf_s" \in DOMAIN summary
    /\ summary["zipf_s"] = Blank
    /\ rows[1]["bundle_name"].s = SkewedName
    /\ rows[1]["zipf_s"] = PyFloat(13, 10)

\* ------------------------------------------------------------- properties of the writer
\* the columns of the aggregated table as the schema lists them: the grouping
\* key, the medians of latency and throughput, the summed metric, the resource
\* medians, the count
AggSchema ==
    << "scenario", "h3_res", "zipf_s", "target_rps", "ttl", "hot", "invalidation" >>
    \o << MedianColumn.p50_ms, MedianColumn.p95_ms, MedianColumn.p99_ms,
          MedianColumn.throughput_rps >>
    \o << "errors_sum" >>
    \o << MedianColumn.postgis_cpu_avg_pct, MedianColumn.geoserver_cpu_avg_pct,
          MedianColumn.postgis_mem_avg_mib, MedianColumn.geoserver_mem_avg_mib >>
    \o << "n_reps" >>

\* what a table shows for column c of record r: blank when r has no such key,
\* nan for a not-a-number, else the value
Printed(r, c) ==
    IF c \notin DOMAIN r THEN Blank
    ELSE IF r[c].t = "nan" THEN PyStr(<< "n", "a", "n" >>)
    ELSE r[c]

\* file f is written with a header of n columns, and each of its lines is a
\* record of recs, in order, with one cell per column of the header
WrittenWith(f, n, recs) ==
    /\ Len(files[f].header) = n
    /\ \A a, b \in 1..n : files[f].header[a] = files[f].header[b] => a = b
    /\ Len(files[f].body) <= Len(recs)
    /\ \A i \in 1..Len(files[f].body) :
          /\ Len(files[f].body[i]) = n
          /\ \A j \in 1..n : files[f].body[i][j] = Printed(recs[i], files[f].header[j])

\* C13 as stated: the aggregated table has 16 columns and the long table 35;
\* every written row has exactly the columns of the header in its order,
\* whatever keys the record carries, and the header is there with no rows too.
C13_SixteenColumns ==
    /\ files["runs_long.csv"].exists => WrittenWith("runs_long.csv", 35, rows)
    /\ files["runs_agg.csv"].exists =>
          WrittenWith("runs_agg.csv", 16, runs_agg) /\ files["runs_agg.csv"].header = AggSchema

\* C13 amended: the aggregated table has 17 columns (the 7 of the grouping
\* key, 4 medians of latency and throughput, errors_sum, 4 resource medians,
\* n_reps) and the long table 35; every written row has exactly the columns of
\* the header in its order, whatever keys the record carries (a missing key is
\* a blank cell, a key that is no column is left out), and the header is there
\* with no rows too.
C13_SeventeenColumns ==
    /\ files["runs_long.csv"].exists => WrittenWith("runs_long.csv", 35, rows)
    /\ files["runs_agg.csv"].exists =>
          WrittenWith("runs_agg.csv", 17, runs_agg) /\ files["runs_agg.csv"].header = AggSchema

\* both tables are written, from a record with a key that is no column and
\* from a record with no key at all
C13_Witness ==
    /\ pc = "exit"
    /\ \E i \in 1..Len(rows) : "note" \in DOMAIN rows[i]
    /\ \E i \in 1..Len(rows) : DOMAIN rows[i] = {}
    /\ Len(files["runs_long.csv"].body) = Len(rows)
    /\ Len(files["runs_agg.csv"].body) >= 1

\* the walk is over
WalkOver == pc \notin {"bundles", "reps"} /\ ri > Len(roots)

\* file f holds every one of the n records it is written from
Whole(f, n) == files[f].exists /\ Len(files[f].body) = n

\* C14: no output file exists before the corpus walk has finished, and when
\* main has ended in an exception, neither file is partially written and
\* neither is written without the other.
C14_CollectThenWriteOnce ==
    /\ (\E f \in DOMAIN files : files[f].exists) => WalkOver
    /\ pc = "raised" =>
          \/ \A f \in DOMAIN files : ~files[f].exists
          \/ Whole("runs_long.csv", Len(rows)) /\ Whole("runs_agg.csv", Len(runs_agg))

\* ------------------------------------------------------------- properties of the walk's order
\* the name of the directory of replication n
RepDir(n) == << "r", "e", "p" >> \o FormatNat(n)

\* the place of a Long Record in the corpus: root, bundle, replication directory
WalkKey(r) == << r["root_id"], r["bundle_name"], PyStr(RepDir(r["rep"].n)) >>

\* C15: the Long Records are in the lexical order of root, then bundle, then
\* replication directory: no record comes before one of a smaller root name,
\* or of the same root and a smaller bundle name, or of the same bundle and a
\* smaller directory name, whatever the order in which the roots were listed.
C15_RowsInLexicalOrder ==
    \A k, l \in 1..Len(rows) : k < l => ~TupleLt(WalkKey(rows[l]), WalkKey(rows[k]))

\* ------------------------------------------------------------- properties of the averages
\* two characters that are the same letter, whatever their case
SameLetter(a, b) ==
    a = b \/ (a \in LetterChars /\ b \in LetterChars /\ Abs(Ord(a) - Ord(b)) = 27)

\* the label of the sample names process p
Names(row, p) ==
    /\ Len(Strip(OrEmpty(row.container))) = Len(p)
    /\ \A i \in 1..Len(p) : SameLetter(Strip(OrEmpty(row.container))[i], p[i])

\* the samples of process p the loop retains
RetainedOf(p) ==
    SelectSeq(dfile.rows,
              LAMBDA row : Names(row, p) /\ InWindow(StampOf(row), Window(dstart, dend)))

\* the CPU values that are numbers among the retained samples of p
CpuOf(p) ==
    SelectSeq([i \in 1..Len(RetainedOf(p)) |-> parse_cpu_percent(RetainedOf(p)[i].cpu_perc)],
              LAMBDA x : ~x.nan)

\* the memory values that are numbers among the retained samples of p
MemOf(p) ==
    SelectSeq([i \in 1..Len(RetainedOf(p)) |-> parse_mem_usage_to_mib(RetainedOf(p)[i].mem_usage)],
              LAMBDA x : ~x.nan)

\* the sum of vals as a fraction that is not reduced
RECURSIVE Total(_)
Total(vals) ==
    IF vals = << >> THEN [n |-> 0, d |-> 1]
    ELSE [n |-> vals[Len(vals)].n * Total(SubSeq(vals, 1, Len(vals) - 1)).d
                  + Total(SubSeq(vals, 1, Len(vals) - 1)).n * vals[Len(vals)].d,
          d |-> vals[Len(vals)].d * Total(SubSeq(vals, 1, Len(vals) - 1)).d]

\* x times count is sum
TimesIs(x, count, sum) == x.n * count * sum.d = sum.n * x.d

\* x is the mean of vals, not-a-number when there is none
IsMeanOf(x, vals) ==
    IF vals = << >> THEN x.nan ELSE ~x.nan /\ TimesIs(x, Len(vals), Total(vals))

\* the log without the samples of other processes
TrackedOnly ==
    [dfile EXCEPT !.rows =
        SelectSeq(dfile.rows, LAMBDA row : Names(row, POSTGIS) \/ Names(row, GEOSERVER))]

\* C16: each of the four results is the mean of the values that are numbers
\* among the retained samples whose label is that process's name in any case
\* (a sample counts for its CPU when its memory is no number, and conversely),
\* not-a-number when there is no such value; samples of other labels change
\* nothing.
C16_MeansPerProcess ==
    Computed =>
        /\ IsMeanOf(davg.out.postgis_cpu_avg_pct, CpuOf(POSTGIS))
        /\ IsMeanOf(davg.out.geoserver_cpu_avg_pct, CpuOf(GEOSERVER))
        /\ IsMeanOf(davg.out.postgis_mem_avg_mib, MemOf(POSTGIS))
        /\ IsMeanOf(davg.out.geoserver_mem_avg_mib, MemOf(GEOSERVER))
        /\ compute_docker_averages(TrackedOnly, dstart, dend).out = davg.out

\* a log with a sample of another process, a retained postgis sample whose CPU
\* is no number and one labelled PostGIS whose memory is no number: both
\* postgis means are numbers
C16_Witness ==
    /\ Computed
    /\ Len(TrackedOnly.rows) < Len(dfile.rows)
    /\ Len(CpuOf(POSTGIS)) = 1
    /\ Len(MemOf(POSTGIS)) = 1
    /\ Len(RetainedOf(POSTGIS)) = 2
    /\ ~davg.out.postgis_cpu_avg_pct.nan
    /\ ~davg.out.postgis_mem_avg_mib.nan

\* ------------------------------------------------------------- properties of the timestamp parser
\* parse_iso_dt has returned or raised
StampParsed == pc = "stamp_done"

\* s ends with a zone: "Z" or an offset
Zoned(s) == s # << >> /\ s[Len(s)] \in DOMAIN OffsetSec \cup {"Z"}

\* s without its zone
Unzoned(s) == IF Zoned(s) THEN SubSeq(s, 1, Len(s) - 1) ELSE s

\* the seconds east of UTC that the zone of s states
ZoneSec(s) == IF Zoned(s) /\ s[Len(s)] # "Z" THEN OffsetSec[s[Len(s)]] ELSE 0

\* u is of an accepted shape: a date-time, or a date-time, a point and digits
Shaped(u) ==
    /\ u # << >>
    /\ u[1] \in DOMAIN ClockSec
    /\ Len(u) = 1 \/ (Len(u) >= 3 /\ u[2] = "." /\ RunOf(SubSeq(u, 3, Len(u)), DigitChars))

\* the j-th of the six digits of a number of microseconds
MicroDigit(us, j) == (us \div Pow10(6 - j)) % 10

\* dt is the datetime that s writes: the six digits of its microseconds are
\* the digits of the fraction of u, zeros after the last of them
StampIs(dt, s, u) ==
    /\ dt.ok
    /\ dt.aware = Zoned(s)
    /\ dt.sec = ClockSec[u[1]] - ZoneSec(s)
    /\ dt.us \in 0..999999
    /\ \A j \in 1..6 :
          MicroDigit(dt.us, j) = IF j + 2 <= Len(u) THEN DigitVal(u[j + 2]) ELSE 0

\* C20: a timestamp without a fraction parses with zero microseconds; a
\* fraction of any number of digits gives the microseconds of its first six
\* digits, zeros standing for the missing ones; so it is with a trailing Z,
\* with an offset and with no zone; the empty string and a string of no
\* accepted shape fail.
C20_SixDigitsOrFail ==
    StampParsed =>
        IF Shaped(Unzoned(Trimmed(ts)))
        THEN StampIs(ts_dt, Trimmed(ts), Unzoned(Trimmed(ts)))
        ELSE ~ts_dt.ok

\* the fraction .077777777 with the offset +01:00 gave 77777 microseconds
C20_Witness ==
    /\ StampParsed
    /\ ts = << "00:00:10", ".", "0", "7", "7", "7", "7", "7", "7", "7", "7", "+01:00" >>
    /\ ts_dt = [ok |-> TRUE, aware |-> TRUE, sec |-> 10 - 3600, us |-> 77777]

\* ------------------------------------------------------------- properties of the memory parser
\* parse_mem_usage_to_mib has returned
MemParsed == pc = "mem_done"

\* the part of s left of its first "/"
LeftPart(s) ==
    IF \A i \in 1..Len(s) : s[i] # "/" THEN s
    ELSE SubSeq(s, 1, (CHOOSE i \in 1..Len(s) : s[i] = "/" /\ \A j \in 1..i - 1 : s[j] # "/") - 1)

\* mag is a magnitude: digits, or digits if any, a point and digits
MagnitudeText(mag) ==
    \/ RunOf(mag, DigitChars)
    \/ \E k \in 1..Len(mag) - 1 :
          /\ mag[k] = "."
          /\ k = 1 \/ RunOf(SubSeq(mag, 1, k - 1), DigitChars)
          /\ RunOf(SubSeq(mag, k + 1, Len(mag)), DigitChars)

\* the digits of mag after its point
Decimals(mag) ==
    IF \A i \in 1..Len(mag) : mag[i] # "." THEN 0
    ELSE Len(mag) - (CHOOSE i \in 1..Len(mag) : mag[i] = ".")

\* the number the magnitude mag writes: [n, d]
MagnitudeOf(mag) ==
    [n |-> DigitsToNat(SelectSeq(mag, LAMBDA c : c # ".")), d |-> Pow10(Decimals(mag))]

\* the MiB in one of each supported unit, as << numerator, denominator >>
MiBIn ==
    (<< "B" >> :> << 1, 1024 * 1024 >>)
    @@ (<< "K", "i", "B" >> :> << 1, 1024 >>)
    @@ (<< "M", "i", "B" >> :> << 1, 1 >>)
    @@ (<< "G", "i", "B" >> :> << 1024, 1 >>)
    @@ (<< "T", "i", "B" >> :> << 1024 * 1024, 1 >>)
    @@ (<< "K", "B" >> :> << 1000, 1024 * 1024 >>)
    @@ (<< "M", "B" >> :> << 1000 * 1000, 1024 * 1024 >>)
    @@ (<< "G", "B" >> :> << 1000 * 1000 * 1000, 1024 * 1024 >>)

\* q times a / b, common factors cancelled before the products are taken
Times(q, a, b) ==
    [n |-> (q.n \div GCD(q.n, b)) * (a \div GCD(a, q.d)),
     d |-> (q.d \div GCD(a, q.d)) * (b \div GCD(q.n, b))]

\* used is the magnitude of its first i characters, blanks up to the j-th,
\* and then a unit of letters
SplitsAt(used, i, j) ==
    /\ i <= j /\ j < Len(used)
    /\ MagnitudeText(SubSeq(used, 1, i))
    /\ \A k \in i + 1..j : used[k] = " "
    /\ \A k \in j + 1..Len(used) : used[k] \in LetterChars

\* x is mag of unit in MiB: the inverse scaling of x gives mag back
Recovers(x, mag, unit) ==
    /\ unit \in DOMAIN MiBIn
    /\ ~x.nan
    /\ SameFraction(Times(x, MiBIn[unit][2], MiBIn[unit][1]), MagnitudeOf(mag))

\* x is what the used part converts to: not-a-number unless used is a
\* magnitude and a supported unit
ConvertsTo(used, x) ==
    IF \E i, j \in 0..Len(used) :
          SplitsAt(used, i, j) /\ SubSeq(used, j + 1, Len(used)) \in DOMAIN MiBIn
    THEN \E i, j \in 0..Len(used) :
            SplitsAt(used, i, j)
            /\ Recovers(x, SubSeq(used, 1, i), SubSeq(used, j + 1, Len(used)))
    ELSE x.nan

\* C21: only the part left of the first "/" is parsed; a magnitude with one of
\* B, KiB, MiB, GiB, TiB, KB, MB, GB gives the MiB from which the inverse
\* scaling recovers the magnitude (powers of 1024 for the first five, powers
\* of 1000 over 1024 squared for the others); any other unit, a unit in
\* another case and any text that is no magnitude give not-a-number.
C21_ScaledOrNaN ==
    MemParsed => ConvertsTo(Trimmed(LeftPart(mem_usage)), mem_mib)

\* "1.5GB / 2GiB" gave 1.5 * 1000^3 / 1024^2 MiB
C21_Witness ==
    /\ MemParsed
    /\ mem_usage = << "1", ".", "5", "G", "B", " ", "/", " ", "2", "G", "i", "B" >>
    /\ mem_mib = [nan |-> FALSE, n |-> 5859375, d |-> 4096]

=============================================================================
